---- MODULE Spec2Model ----
(***************************************************************************)
(* BackupsService (ts/services/backups/index.ts): the export pipeline, the *)
(* two-pass import verifier and the isRunning concurrency guard.           *)
(*                                                                         *)
(* Bytes are integers 0..255 and streams are sequences of bytes.  The      *)
(* cryptographic and codec stages are small executable stand-ins with the  *)
(* same interface and framing as the real ones (keyed incremental MAC with *)
(* a 32-byte digest, CBC chaining over 16-byte blocks with PKCS padding,   *)
(* a length-carrying compression container, length-delimited records).     *)
(***************************************************************************)
EXTENDS Integers, Sequences, FiniteSets, Bags, TLC

\* ------------------------------------------------------------------ bounds
NumCallers == 2
SmallChunk == 12
LargeChunk == 40
MaxExports == 2
MaxRefreshes == 2

\* calling thunks that can be waiting for the calling service at once
NumThunks == 2

\* --------------------------------------------------------------- constants
IV_LENGTH == 16
MAC_LENGTH == 32
BLOCK_LENGTH == 16
PAD_BUCKET == 8
HMAC_MODULUS == 32749
GZIP_MAGIC == 31

Min(a, b) == IF a < b THEN a ELSE b
Max(a, b) == IF a > b THEN a ELSE b
Take(s, n) == SubSeq(s, 1, Min(n, Len(s)))
Drop(s, n) == SubSeq(s, Min(n, Len(s)) + 1, Len(s))
Last(s, n) == Drop(s, Len(s) - Min(n, Len(s)))

\* ------------------------------------------------------------ key material
aesKey == 5
macKey == 9

\* ------------------------------------------------------------------- HMAC
\* createHmac(HashType.size256, key): a fresh accumulator keyed with key.
createHmac(key) == (key * 257 + 1) % HMAC_MODULUS

RECURSIVE HmacPow(_)
\* 31^k modulo HMAC_MODULUS.
HmacPow(k) ==
  IF k = 0 THEN 1
  ELSE LET half == HmacPow(k \div 2)
       IN  (((half * half) % HMAC_MODULUS) * (IF k % 2 = 1 THEN 31 ELSE 1)) % HMAC_MODULUS

RECURSIVE HmacPoly(_, _, _)
\* The contribution of bytes[lo..hi] to the accumulator.
HmacPoly(bytes, lo, hi) ==
  IF lo > hi THEN 0
  ELSE IF lo = hi THEN bytes[lo] + 1
  ELSE LET mid == (lo + hi) \div 2
       IN  (HmacPoly(bytes, lo, mid) * HmacPow(hi - mid) + HmacPoly(bytes, mid + 1, hi))
             % HMAC_MODULUS

\* hmac.update(bytes): absorb bytes in order (h := 31 h + b + 1 for each b).
hmacUpdate(h, bytes) ==
  (h * HmacPow(Len(bytes)) + HmacPoly(bytes, 1, Len(bytes))) % HMAC_MODULUS

\* hmac.digest(): the 32-byte tag of the accumulator.
hmacDigest(h) ==
  [i \in 1..MAC_LENGTH |-> ((h \div 256) + i * ((h % 256) + 1)) % 256]

\* HMAC-SHA-256 of a whole message under key.
Hmac(key, msg) == hmacDigest(hmacUpdate(createHmac(key), msg))

\* constantTimeEqual(left, right): equal length and equal bytes.
constantTimeEqual(left, right) == left = right

\* ------------------------------------------------------------ AES-256-CBC
EncByte(key, j, x) == (x + key + j) % 256
DecByte(key, j, y) == (y - key - j + 512) % 256

EncBlock(key, prev, plain) ==
  [j \in 1..BLOCK_LENGTH |-> EncByte(key, j, (plain[j] + prev[j]) % 256)]
DecBlock(key, prev, ct) ==
  [j \in 1..BLOCK_LENGTH |-> (DecByte(key, j, ct[j]) - prev[j] + 256) % 256]

RECURSIVE CbcEncrypt(_, _, _)
CbcEncrypt(key, prev, plain) ==
  IF plain = <<>> THEN <<>>
  ELSE LET c == EncBlock(key, prev, Take(plain, BLOCK_LENGTH))
       IN  c \o CbcEncrypt(key, c, Drop(plain, BLOCK_LENGTH))

RECURSIVE CbcDecrypt(_, _, _)
CbcDecrypt(key, prev, ct) ==
  IF Len(ct) < BLOCK_LENGTH THEN <<>>
  ELSE LET c == Take(ct, BLOCK_LENGTH)
       IN  DecBlock(key, prev, c) \o CbcDecrypt(key, c, Drop(ct, BLOCK_LENGTH))

PkcsPad(plain) ==
  LET n == BLOCK_LENGTH - (Len(plain) % BLOCK_LENGTH)
  IN  plain \o [i \in 1..n |-> n]

PkcsValid(plain) ==
  /\ Len(plain) >= BLOCK_LENGTH
  /\ LET n == plain[Len(plain)]
     IN  /\ n \in 1..BLOCK_LENGTH
         /\ \A i \in (Len(plain) - n + 1)..Len(plain) : plain[i] = n

PkcsUnpad(plain) == Take(plain, Len(plain) - plain[Len(plain)])

\* createCipheriv(CipherType.AES256CBC, key, iv) applied to a whole stream.
Encrypt(key, iv, plain) == CbcEncrypt(key, iv, PkcsPad(plain))

\* -------------------------------------------------------------------- gzip
RECURSIVE SumBytes(_)
SumBytes(s) ==
  IF Len(s) = 0 THEN 0
  ELSE IF Len(s) = 1 THEN s[1] % 256
  ELSE (SumBytes(Take(s, Len(s) \div 2)) + SumBytes(Drop(s, Len(s) \div 2))) % 256

\* createGzip() applied to a whole stream: magic, length, data, checksum.
Gzip(data) == <<GZIP_MAGIC, Len(data)>> \o data \o <<SumBytes(data)>>

\* ----------------------------------------------------------------- padding
PadSize(size) == ((size + PAD_BUCKET - 1) \div PAD_BUCKET) * PAD_BUCKET

\* appendPaddingStream(): zero bytes up to the bucket size.
appendPadding(data) ==
  data \o [i \in 1..(PadSize(Max(Len(data), 1)) - Len(data)) |-> 0]

\* ----------------------------------------------------------------- framing
RECURSIVE Frame(_)
\* BackupExportStream: every record preceded by its length.
Frame(records) ==
  IF records = <<>> THEN <<>>
  ELSE <<Len(Head(records))>> \o Head(records) \o Frame(Tail(records))

\* prependStream(iv)
prependStream(iv, data) == iv \o data

\* appendMacStream(macKey)
appendMacStream(key, data) == data \o Hmac(key, data)

\* (the MAC appended before the IV is prepended: the MAC does not cover the IV)
ExportEnvelopeMacBeforeIv(records, iv) ==
  prependStream(iv,
    appendMacStream(macKey,
      Encrypt(aesKey, iv, appendPadding(Gzip(Frame(records))))))

\* The bytes the export pipeline produces for a record stream and an IV.
ExportEnvelope(records, iv) ==
  appendMacStream(macKey,
    prependStream(iv,
      Encrypt(aesKey, iv, appendPadding(Gzip(Frame(records))))))

\* ------------------------------------------------------- import pipeline
\* getIvAndDecipher(aesKey) after the bytes fwd were written to it: the first
\* IV_LENGTH bytes are the IV, the rest is deciphered block by block and the
\* last block is held back until the stream ends.
DecipherEmitted(fwd, ended) ==
  LET ct == Drop(fwd, IV_LENGTH)
      nb == Len(ct) \div BLOCK_LENGTH
  IN  IF ended \/ Len(ct) % BLOCK_LENGTH # 0 THEN nb ELSE Max(nb - 1, 0)

DecipherRaw(fwd, ended) ==
  CbcDecrypt(aesKey, Take(fwd, IV_LENGTH),
             Take(Drop(fwd, IV_LENGTH), DecipherEmitted(fwd, ended) * BLOCK_LENGTH))

DecipherError(fwd, ended) ==
  /\ ended
  /\ \/ Len(fwd) <= IV_LENGTH
     \/ (Len(fwd) - IV_LENGTH) % BLOCK_LENGTH # 0
     \/ ~PkcsValid(DecipherRaw(fwd, TRUE))

DecipherOut(fwd, ended) ==
  IF ended /\ ~DecipherError(fwd, ended)
  THEN PkcsUnpad(DecipherRaw(fwd, TRUE))
  ELSE DecipherRaw(fwd, FALSE)

\* createGunzip(): header check, then data as it arrives, then the checksum;
\* bytes after the container are ignored.
GunzipOut(plain) ==
  IF Len(plain) < 2 \/ plain[1] # GZIP_MAGIC THEN <<>>
  ELSE SubSeq(plain, 3, Min(Len(plain), 2 + plain[2]))

GunzipError(plain, ended) ==
  \/ Len(plain) >= 1 /\ plain[1] # GZIP_MAGIC
  \/ /\ Len(plain) >= 2
     /\ Len(plain) >= 3 + plain[2]
     /\ plain[3 + plain[2]] # SumBytes(SubSeq(plain, 3, 2 + plain[2]))
  \/ ended /\ (Len(plain) < 2 \/ Len(plain) < 3 + plain[2])

RECURSIVE Unframe(_)
\* DelimitedStream: the complete records of the data seen so far.
Unframe(data) ==
  IF data = <<>> \/ Len(data) < 1 + data[1] THEN <<>>
  ELSE <<SubSeq(data, 2, 1 + data[1])>> \o Unframe(Drop(data, 1 + data[1]))

RECURSIVE Unframed(_)
\* The bytes left over after the complete records.
Unframed(data) ==
  IF data = <<>> \/ Len(data) < 1 + data[1] THEN data
  ELSE Unframed(Drop(data, 1 + data[1]))

DelimitedError(data, ended) == ended /\ Unframed(data) # <<>>

\* The records the pass 2 chain has handed to BackupImportStream once fwd
\* bytes left the MAC stage, and whether one of its stages has failed.
Pass2Records(fwd, ended) == Unframe(GunzipOut(DecipherOut(fwd, ended)))

Pass2Error(fwd, ended) ==
  \/ DecipherError(fwd, ended)
  \/ GunzipError(DecipherOut(fwd, ended), ended)
  \/ DelimitedError(GunzipOut(DecipherOut(fwd, ended)), ended)

\* ------------------------------------------------------------------ inputs
Flip(b) == IF b % 2 = 0 THEN b + 1 ELSE b - 1
FlipAt(s, i) == [s EXCEPT ![i] = Flip(@)]

\* Record streams a BackupExportStream may produce.
RecordStreams == { << <<7>> >>, << <<1, 2>>, <<3, 4, 5, 6, 7>> >> }

\* Values randomBytes(IV_LENGTH) may return.
IVs == { [i \in 1..IV_LENGTH |-> 0], [i \in 1..IV_LENGTH |-> i] }

\* The values the generator behind randomBytes has to give.
FreshIVs == IVs \cup { [i \in 1..IV_LENGTH |-> (7 * i) % 256] }

\* The envelope of every record stream under every IV, computed once.
Envelopes ==
  { [records |-> r, iv |-> iv, envelope |-> ExportEnvelope(r, iv)] :
      r \in RecordStreams, iv \in FreshIVs }

\* ExportEnvelope(records, iv), looked up.
EnvelopeOf(records, iv) ==
  (CHOOSE e \in Envelopes : e.records = records /\ e.iv = iv).envelope

ValidEnvelopes == { ExportEnvelope(r, iv) : r \in RecordStreams, iv \in IVs }

\* One flipped bit in the IV, in the ciphertext body or in the MAC.
TamperPositions(e) ==
  { 1, IV_LENGTH, IV_LENGTH + 1, Len(e) - MAC_LENGTH, Len(e) - MAC_LENGTH + 1, Len(e) }
Tampered(e) == { FlipAt(e, i) : i \in TamperPositions(e) }

\* Proper prefixes.
TruncatedLengths(e) ==
  { 0, 1, MAC_LENGTH - 1, MAC_LENGTH, MAC_LENGTH + 1,
    IV_LENGTH + MAC_LENGTH - 1, IV_LENGTH + MAC_LENGTH, Len(e) - 1 }
Truncated(e) == { Take(e, n) : n \in TruncatedLengths(e) }

\* Every proper prefix of every envelope.
PartialEnvelopes ==
  UNION { { Take(e, n) : n \in 0..(Len(e) - 1) } : e \in ValidEnvelopes }

\* A sound MAC over bytes that are not a well-formed ciphertext.
Garbage == { appendMacStream(macKey, [i \in 1..n |-> 3]) : n \in {IV_LENGTH, 2 * IV_LENGTH, 2 * IV_LENGTH + 1} }

Streams ==
  ValidEnvelopes \cup Garbage
    \cup UNION { Tampered(e) \cup Truncated(e) : e \in ValidEnvelopes }

\* The sources imported beside the periodic refresh: an envelope, and the
\* same envelope with one bit of its ciphertext flipped.
RefreshEnvelope == ExportEnvelope(<< <<7>> >>, [i \in 1..IV_LENGTH |-> i])
RefreshSources == { RefreshEnvelope, FlipAt(RefreshEnvelope, IV_LENGTH + 1) }

\* Pass2Records and Pass2Error of every prefix of what these sources hand to
\* the decipher, computed once.
Decoded ==
  { [fwd |-> Take(s, n), ended |-> b,
     records |-> Pass2Records(Take(s, n), b),
     error |-> Pass2Error(Take(s, n), b)] :
      <<s, n, b>> \in UNION { {e} \X (0..(Len(e) - MAC_LENGTH)) \X BOOLEAN : e \in RefreshSources } }

\* Pass2Records(fwd, ended) and Pass2Error(fwd, ended), looked up where known.
Pass2(fwd, ended) ==
  IF \E d \in Decoded : d.fwd = fwd /\ d.ended = ended
  THEN CHOOSE d \in Decoded : d.fwd = fwd /\ d.ended = ended
  ELSE [fwd |-> fwd, ended |-> ended,
        records |-> Pass2Records(fwd, ended), error |-> Pass2Error(fwd, ended)]

\* createBackupStream(): what the second call may yield after the first
\* yielded s.  A replayable factory yields s again.
SecondStreams(s) ==
  {s} \cup ValidEnvelopes \cup (IF s \in ValidEnvelopes THEN Tampered(s) ELSE {})

ChunkSizes == { SmallChunk, LargeChunk }

\* ------------------------------------------------------------------- state
Procs == 1..NumCallers

Undefined == << -1 >>

BUSY == "BackupService is already running"
MISSING_MAC == "importBackup: Missing MAC"
BAD_MAC == "importBackup: Bad MAC"
BAD_MAC_2 == "importBackup: Bad MAC, second pass"
STAGE_ERROR == "pipeline stage error"
KEY_ERROR == "getKeyMaterial error"
OK == "resolved"
PENDING == "pending"

\* ---------------------------------------------------------------------
\* Calling state (ducks/calling): the reducer is a pure function of a
\* state and an action.  The state is projected on the fields that decide
\* which calls exist, which one is active and what a peek or a ring wrote;
\* device lists, audio levels and view settings are left out.
\* ---------------------------------------------------------------------

\* A field that is absent from a JavaScript object.
Absent == "undefined"

\* Optional values are sequences of length at most one.
None == <<>>
Some(x) == <<x>>

Conversations == {"a", "b"}

Direct == "Direct"
Group == "Group"
Adhoc == "Adhoc"

NotConnected == "NotConnected"
Connecting == "Connecting"
Connected == "Connected"
Reconnecting == "Reconnecting"

NotJoined == "NotJoined"
Joining == "Joining"
Joined == "Joined"

Prering == "Prering"
Accepted == "Accepted"
Ended == "Ended"

RemoteHangup == "RemoteHangup"
RemoteHangupNeedPermission == "RemoteHangupNeedPermission"

\* A peek result: how many other members are in the call, and which era
\* the server reported.
PeekInfo(acis, eraId) == [acis |-> acis, deviceCount |-> acis, eraId |-> eraId]

\* { acis: remoteParticipants.map(...), deviceCount: remoteParticipants.length }
PeekOfParticipants(remoteParticipants) == PeekInfo(remoteParticipants, Absent)

\* One record shape for both kinds of call; a direct call has no group
\* fields and a group call no direct ones.
DirectCallState(conversationId, callState) ==
  [ callMode |-> Direct, conversationId |-> conversationId,
    callState |-> callState, callEndedReason |-> Absent,
    connectionState |-> Absent, joinState |-> Absent, localDemuxId |-> Absent,
    peekInfo |-> PeekInfo(0, Absent), remoteParticipants |-> 0,
    ringId |-> Absent, ringerAci |-> Absent ]

GroupCallState(callMode, conversationId, connectionState, joinState, localDemuxId, peekInfo, remoteParticipants, ringState) ==
  [ callMode |-> callMode, conversationId |-> conversationId,
    callState |-> Absent, callEndedReason |-> Absent,
    connectionState |-> connectionState, joinState |-> joinState,
    localDemuxId |-> localDemuxId,
    peekInfo |-> peekInfo, remoteParticipants |-> remoteParticipants,
    ringId |-> ringState.ringId, ringerAci |-> ringState.ringerAci ]

NoRing == [ringId |-> Absent, ringerAci |-> Absent]

ActiveCallState(callMode, conversationId, outgoingRing) ==
  [ callMode |-> callMode, conversationId |-> conversationId,
    outgoingRing |-> outgoingRing, joinedAt |-> "null", reactions |-> None ]

getOwn(map, id) == IF id \in DOMAIN map THEN Some(map[id]) ELSE None

omit(map, id) == [k \in DOMAIN map \ {id} |-> map[k]]

\* { ...map, [id]: call }
Spread(map, id, entry) == [k \in DOMAIN map \cup {id} |-> IF k = id THEN entry ELSE map[k]]

isGroupOrAdhocCallMode(callMode) == callMode \in {Group, Adhoc}

isGroupOrAdhocCallState(c) == c # None /\ isGroupOrAdhocCallMode(c[1].callMode)

\* !x for a ring id or an ACI: undefined, 0n and the empty string are falsy.
Falsy(x) == x \in {Absent, "0", ""}

getEmptyState ==
  [ callsByConversation |-> <<>>, adhocCalls |-> <<>>, callLinks |-> {},
    activeCallState |-> None ]

getActiveCall(state) ==
  IF state.activeCallState = None
  THEN None
  ELSE LET a == state.activeCallState[1]
       IN  IF a.callMode = Adhoc
           THEN getOwn(state.adhocCalls, a.conversationId)
           ELSE getOwn(state.callsByConversation, a.conversationId)

\* getGroupCallRingState that copies the ring id alone.
getGroupCallRingIdOnly(c) ==
  IF c = None \/ c[1].ringId = Absent
  THEN NoRing
  ELSE [ringId |-> c[1].ringId, ringerAci |-> Absent]

getGroupCallRingState(c) ==
  IF c = None \/ c[1].ringId = Absent
  THEN NoRing
  ELSE [ringId |-> c[1].ringId, ringerAci |-> c[1].ringerAci]

getGroupCall(conversationId, state, callMode) ==
  LET c == IF callMode = Adhoc
           THEN getOwn(state.adhocCalls, conversationId)
           ELSE getOwn(state.callsByConversation, conversationId)
  IN  IF isGroupOrAdhocCallState(c) THEN c ELSE None

\* removeConversationFromState without the omit of activeCallState.
removeConversationOnly(state, conversationId) ==
  [ state EXCEPT
      !.callsByConversation = omit(@, conversationId),
      !.adhocCalls = omit(@, conversationId) ]

removeConversationFromState(state, conversationId) ==
  [ state EXCEPT
      !.activeCallState = IF @ # None /\ @[1].conversationId = conversationId THEN None ELSE @,
      !.callsByConversation = omit(@, conversationId),
      !.adhocCalls = omit(@, conversationId) ]

\* The state with the two lookups the source's helper returns spread in.
mergeCallWithGroupCallLookups(state, callMode, conversationId, c) ==
  [ state EXCEPT
      !.callsByConversation = IF callMode = Adhoc THEN @ ELSE Spread(@, conversationId, c),
      !.adhocCalls = IF callMode = Adhoc THEN Spread(@, conversationId, c) ELSE @ ]

\* isAnybodyElseInGroupCall(peekInfo, ourAci): acis counts the other members.
isAnybodyElseInGroupCall(peekInfo) == peekInfo.acis > 0

\* Action types of the reducer.
START_CALLING_LOBBY == "calling/START_CALLING_LOBBY"
START_CALL_LINK_LOBBY == "calling/START_CALL_LINK_LOBBY"
START_DIRECT_CALL == "calling/START_DIRECT_CALL"
ACCEPT_CALL_PENDING == "calling/ACCEPT_CALL_PENDING"
CANCEL_CALL == "calling/CANCEL_CALL"
HANG_UP == "calling/HANG_UP"
CLOSE_NEED_PERMISSION_SCREEN == "calling/CLOSE_NEED_PERMISSION_SCREEN"
CANCEL_INCOMING_GROUP_CALL_RING == "calling/CANCEL_INCOMING_GROUP_CALL_RING"
CONVERSATION_CHANGED == "CONVERSATION_CHANGED"
CONVERSATION_REMOVED == "CONVERSATION_REMOVED"
DECLINE_DIRECT_CALL == "calling/DECLINE_DIRECT_CALL"
INCOMING_DIRECT_CALL == "calling/INCOMING_DIRECT_CALL"
INCOMING_GROUP_CALL == "calling/INCOMING_GROUP_CALL"
OUTGOING_CALL == "calling/OUTGOING_CALL"
CALL_STATE_CHANGE_FULFILLED == "calling/CALL_STATE_CHANGE_FULFILLED"
GROUP_CALL_STATE_CHANGE == "calling/GROUP_CALL_STATE_CHANGE"
PEEK_GROUP_CALL_FULFILLED == "calling/PEEK_GROUP_CALL_FULFILLED"
SET_OUTGOING_RING == "calling/SET_OUTGOING_RING"
SEND_GROUP_CALL_REACTION == "calling/SEND_GROUP_CALL_REACTION"
GROUP_CALL_REACTIONS_RECEIVED == "calling/GROUP_CALL_REACTIONS_RECEIVED"
GROUP_CALL_REACTIONS_EXPIRED == "calling/GROUP_CALL_REACTIONS_EXPIRED"

\* START_CALLING_LOBBY and START_CALL_LINK_LOBBY: the call of the lobby is
\* stored and becomes the active call, whatever was active before.
ReduceStartLobby(state, action) ==
  LET callMode == action.callMode
      conversationId == action.conversationId
      existingCall == getGroupCall(conversationId, state, callMode)
      ringState == getGroupCallRingState(existingCall)
      peekInfo == IF action.peekInfo # None THEN action.peekInfo[1]
                  ELSE IF existingCall # None THEN existingCall[1].peekInfo
                  ELSE PeekOfParticipants(action.remoteParticipants)
      c == IF callMode = Direct
           THEN DirectCallState(conversationId, Absent)
           ELSE GroupCallState(callMode, conversationId, action.connectionState,
                               action.joinState, Absent, peekInfo,
                               action.remoteParticipants, ringState)
      outgoingRing == CASE callMode = Direct -> TRUE
                        [] callMode = Group ->
                             /\ Falsy(ringState.ringId)
                             /\ c.peekInfo.acis = 0
                             /\ c.remoteParticipants = 0
                             /\ ~action.isConversationTooBigToRing
                        [] callMode = Adhoc -> FALSE
  IN  [ state EXCEPT
          !.callsByConversation = IF callMode = Adhoc THEN @ ELSE Spread(@, conversationId, c),
          !.adhocCalls = IF callMode = Adhoc THEN Spread(@, conversationId, c) ELSE @,
          !.callLinks = IF action.type = START_CALL_LINK_LOBBY THEN @ \cup {conversationId} ELSE @,
          !.activeCallState = Some(ActiveCallState(callMode, conversationId, outgoingRing)) ]

\* START_DIRECT_CALL
ReduceStartDirectCall(state, action) ==
  [ state EXCEPT
      !.callsByConversation = Spread(@, action.conversationId,
                                     DirectCallState(action.conversationId, Prering)),
      !.activeCallState = Some(ActiveCallState(Direct, action.conversationId, TRUE)) ]

\* ACCEPT_CALL_PENDING
ReduceAcceptCallPending(state, action) ==
  LET c == getOwn(state.callsByConversation, action.conversationId)
  IN  IF c = None
      THEN state
      ELSE [ state EXCEPT
               !.activeCallState = Some(ActiveCallState(c[1].callMode, action.conversationId, FALSE)) ]

\* CANCEL_CALL, HANG_UP and CLOSE_NEED_PERMISSION_SCREEN
ReduceRemoveActiveCall(state) ==
  LET activeCall == getActiveCall(state)
  IN  CASE activeCall = None -> state
        [] activeCall # None /\ activeCall[1].callMode = Direct ->
             removeConversationFromState(state, activeCall[1].conversationId)
        [] OTHER -> [state EXCEPT !.activeCallState = None]

\* CANCEL_INCOMING_GROUP_CALL_RING without the comparison of the ring ids.
ReduceCancelAnyRing(state, action) ==
  LET groupCall == getGroupCall(action.conversationId, state, Group)
  IN  IF groupCall = None
      THEN state
      ELSE [ state EXCEPT
               !.callsByConversation =
                  Spread(@, action.conversationId,
                         [groupCall[1] EXCEPT !.ringId = Absent, !.ringerAci = Absent]) ]

\* CANCEL_INCOMING_GROUP_CALL_RING
ReduceCancelIncomingGroupCallRing(state, action) ==
  LET groupCall == getGroupCall(action.conversationId, state, Group)
  IN  IF groupCall = None \/ groupCall[1].ringId # action.ringId
      THEN state
      ELSE [ state EXCEPT
               !.callsByConversation =
                  Spread(@, action.conversationId,
                         [groupCall[1] EXCEPT !.ringId = Absent, !.ringerAci = Absent]) ]

\* CONVERSATION_CHANGED
ReduceConversationChanged(state, action) ==
  LET activeCall == getActiveCall(state)
      activeCallState == state.activeCallState
  IN  IF \/ activeCallState = None
         \/ ~activeCallState[1].outgoingRing
         \/ activeCallState[1].conversationId # action.conversationId
         \/ ~isGroupOrAdhocCallState(activeCall)
         \/ activeCall[1].joinState # NotJoined
         \/ ~action.isConversationTooBigToRing
      THEN state
      ELSE [ state EXCEPT
               !.activeCallState = Some([activeCallState[1] EXCEPT !.outgoingRing = FALSE]) ]

\* INCOMING_DIRECT_CALL
ReduceIncomingDirectCall(state, action) ==
  [ state EXCEPT
      !.callsByConversation = Spread(@, action.conversationId,
                                     DirectCallState(action.conversationId, Prering)) ]

\* INCOMING_GROUP_CALL that records the ring on whatever call there is.
ReduceIncomingGroupCallAlways(state, action) ==
  LET conversationId == action.conversationId
      existingGroupCall == getGroupCall(conversationId, state, Group)
      ring == [ringId |-> action.ringId, ringerAci |-> action.ringerAci]
  IN  IF existingGroupCall # None
      THEN [ state EXCEPT
               !.callsByConversation =
                  Spread(@, conversationId,
                         [existingGroupCall[1] EXCEPT !.ringId = ring.ringId,
                                                      !.ringerAci = ring.ringerAci]) ]
      ELSE [ state EXCEPT
               !.callsByConversation =
                  Spread(@, conversationId,
                         GroupCallState(Group, conversationId, NotConnected, NotJoined,
                                        Absent, PeekInfo(0, Absent), 0, ring)) ]

\* INCOMING_GROUP_CALL
ReduceIncomingGroupCall(state, action) ==
  LET conversationId == action.conversationId
      existingGroupCall == getGroupCall(conversationId, state, Group)
      ring == [ringId |-> action.ringId, ringerAci |-> action.ringerAci]
  IN  CASE existingGroupCall # None /\ ~Falsy(existingGroupCall[1].ringerAci) -> state
        [] existingGroupCall # None /\ Falsy(existingGroupCall[1].ringerAci)
             /\ existingGroupCall[1].joinState # NotJoined -> state
        [] existingGroupCall # None /\ Falsy(existingGroupCall[1].ringerAci)
             /\ existingGroupCall[1].joinState = NotJoined ->
             [ state EXCEPT
                 !.callsByConversation =
                    Spread(@, conversationId,
                           [existingGroupCall[1] EXCEPT !.ringId = ring.ringId,
                                                        !.ringerAci = ring.ringerAci]) ]
        [] OTHER ->
             [ state EXCEPT
                 !.callsByConversation =
                    Spread(@, conversationId,
                           GroupCallState(Group, conversationId, NotConnected, NotJoined,
                                          Absent, PeekInfo(0, Absent), 0, ring)) ]

\* OUTGOING_CALL
ReduceOutgoingCall(state, action) ==
  [ state EXCEPT
      !.callsByConversation = Spread(@, action.conversationId,
                                     DirectCallState(action.conversationId, Prering)),
      !.activeCallState = Some(ActiveCallState(Direct, action.conversationId, TRUE)) ]

\* CALL_STATE_CHANGE_FULFILLED that removes every ended call.
ReduceCallStateChangeAlwaysRemoves(state, action) ==
  LET conversationId == action.conversationId
      c == getOwn(state.callsByConversation, conversationId)
  IN  CASE action.callState = Ended -> removeConversationFromState(state, conversationId)
        [] OTHER ->
             IF c = None \/ c[1].callMode # Direct
             THEN state
             ELSE [ state EXCEPT
                      !.callsByConversation =
                         Spread(@, conversationId,
                                [c[1] EXCEPT !.callState = action.callState,
                                             !.callEndedReason = action.callEndedReason]) ]

\* CALL_STATE_CHANGE_FULFILLED: an ended call is removed, unless it ended
\* with RemoteHangupNeedPermission; any other change is recorded on a
\* direct call only.
ReduceCallStateChange(state, action) ==
  LET conversationId == action.conversationId
      c == getOwn(state.callsByConversation, conversationId)
  IN  CASE action.callState = Ended /\ action.callEndedReason # RemoteHangupNeedPermission ->
             removeConversationFromState(state, conversationId)
        [] OTHER ->
             IF c = None \/ c[1].callMode # Direct
             THEN state
             ELSE [ state EXCEPT
                      !.callsByConversation =
                         Spread(@, conversationId,
                                [c[1] EXCEPT !.callState = action.callState,
                                             !.callEndedReason = action.callEndedReason]),
                      !.activeCallState =
                         IF @ # None /\ @[1].conversationId = conversationId
                         THEN Some([@[1] EXCEPT !.joinedAt = action.acceptedTime])
                         ELSE @ ]

\* GROUP_CALL_STATE_CHANGE that keeps the ring state whatever the join state.
ReduceGroupCallStateChangeKeepsRing(state, action) ==
  LET callMode == action.callMode
      conversationId == action.conversationId
      existingCall == getGroupCall(conversationId, state, callMode)
      newPeekInfo == IF action.peekInfo # None THEN action.peekInfo[1]
                     ELSE IF existingCall # None THEN existingCall[1].peekInfo
                     ELSE PeekOfParticipants(action.remoteParticipants)
      kept == IF state.activeCallState # None
                 /\ state.activeCallState[1].conversationId = conversationId
                 /\ action.connectionState = NotConnected
              THEN None
              ELSE state.activeCallState
      c == GroupCallState(callMode, conversationId, action.connectionState,
                          action.joinState, action.localDemuxId, newPeekInfo,
                          action.remoteParticipants, getGroupCallRingState(existingCall))
  IN  [ mergeCallWithGroupCallLookups(state, callMode, conversationId, c)
          EXCEPT !.activeCallState = kept ]

\* GROUP_CALL_STATE_CHANGE
ReduceGroupCallStateChange(state, action) ==
  LET callMode == action.callMode
      conversationId == action.conversationId
      existingCall == getGroupCall(conversationId, state, callMode)
      existingRingState == getGroupCallRingState(existingCall)
      newPeekInfo == IF action.peekInfo # None THEN action.peekInfo[1]
                     ELSE IF existingCall # None THEN existingCall[1].peekInfo
                     ELSE PeekOfParticipants(action.remoteParticipants)
      kept == IF state.activeCallState # None
                 /\ state.activeCallState[1].conversationId = conversationId
                 /\ action.connectionState = NotConnected
              THEN None
              ELSE state.activeCallState
      newActiveCallState ==
        IF /\ kept # None
           /\ kept[1].outgoingRing
           /\ kept[1].conversationId = conversationId
           /\ isAnybodyElseInGroupCall(newPeekInfo)
        THEN Some([kept[1] EXCEPT !.outgoingRing = FALSE])
        ELSE kept
      newRingState == IF action.joinState = NotJoined THEN existingRingState ELSE NoRing
      c == GroupCallState(callMode, conversationId, action.connectionState,
                          action.joinState, action.localDemuxId, newPeekInfo,
                          action.remoteParticipants, newRingState)
  IN  [ mergeCallWithGroupCallLookups(state, callMode, conversationId, c)
          EXCEPT !.activeCallState = newActiveCallState ]

\* PEEK_GROUP_CALL_FULFILLED without the check of the connection state.
ReducePeekAlways(state, action) ==
  LET found == getGroupCall(action.conversationId, state, action.callMode)
      existingCall == IF found # None
                      THEN found[1]
                      ELSE GroupCallState(action.callMode, action.conversationId, NotConnected,
                                          NotJoined, Absent, PeekInfo(0, Absent), 0, NoRing)
  IN  mergeCallWithGroupCallLookups(state, existingCall.callMode, action.conversationId,
                                    [existingCall EXCEPT !.peekInfo = action.peekInfo])

\* PEEK_GROUP_CALL_FULFILLED: only a group call that is not connected, or
\* one that does not exist yet, takes the peek result.
ReducePeekGroupCallFulfilled(state, action) ==
  LET callMode == action.callMode
      conversationId == action.conversationId
      found == getGroupCall(conversationId, state, callMode)
      existingCall == IF found # None
                      THEN found[1]
                      ELSE GroupCallState(callMode, conversationId, NotConnected, NotJoined,
                                          Absent, PeekInfo(0, Absent), 0, NoRing)
  IN  CASE ~isGroupOrAdhocCallMode(callMode) -> state
        [] isGroupOrAdhocCallMode(callMode) /\ existingCall.connectionState # NotConnected -> state
        [] OTHER ->
             mergeCallWithGroupCallLookups(state, existingCall.callMode, conversationId,
                                           [existingCall EXCEPT !.peekInfo = action.peekInfo])

\* GROUP_CALL_AUDIO_LEVELS_CHANGE and GROUP_CALL_RAISED_HANDS_CHANGE write
\* fields of an existing group call that are not part of this state.
ReduceGroupCallField(state, action) ==
  LET existingCall == getGroupCall(action.conversationId, state, action.callMode)
  IN  IF \/ state.activeCallState = None
         \/ existingCall = None
         \/ (action.type = "calling/GROUP_CALL_RAISED_HANDS_CHANGE"
             /\ state.activeCallState[1].conversationId # action.conversationId)
      THEN state
      ELSE mergeCallWithGroupCallLookups(state, existingCall[1].callMode,
                                         action.conversationId, existingCall[1])

\* REMOTE_SHARING_SCREEN_CHANGE and REMOTE_VIDEO_CHANGE write fields of an
\* existing direct call that are not part of this state.
ReduceDirectCallField(state, action) ==
  LET c == getOwn(state.callsByConversation, action.conversationId)
  IN  IF c = None \/ c[1].callMode # Direct
      THEN state
      ELSE [state EXCEPT !.callsByConversation = Spread(@, action.conversationId, c[1])]

\* SET_OUTGOING_RING
ReduceSetOutgoingRing(state, action) ==
  IF state.activeCallState = None
  THEN state
  ELSE [state EXCEPT !.activeCallState = Some([@[1] EXCEPT !.outgoingRing = action.payload])]

\* RETURN_TO_ACTIVE_CALL, SET_LOCAL_AUDIO_FULFILLED, SET_LOCAL_VIDEO_FULFILLED,
\* TOGGLE_SETTINGS, TOGGLE_PARTICIPANTS, TOGGLE_PIP, SET_PRESENTING, ...:
\* each rewrites view fields of an existing activeCallState.
ReduceActiveCallField(state) ==
  IF state.activeCallState = None
  THEN state
  ELSE [state EXCEPT !.activeCallState = Some(@[1])]

\* MAX_CALLING_REACTIONS and CALLING_REACTIONS_LIFETIME are imported from
\* types/Calling; the model takes small positive values of both.
MAX_CALLING_REACTIONS == 2

CALLING_REACTIONS_LIFETIME == 1

\* array.slice(-n) for n > 0: the last n elements, all of them if there are fewer.
SliceLast(s, n) == IF Len(s) <= n THEN s ELSE SubSeq(s, Len(s) - n + 1, Len(s))

\* array.slice(0, n): the first n elements.
SliceFirst(s, n) == IF Len(s) <= n THEN s ELSE SubSeq(s, 1, n)

\* state.activeCallState.reactions ?? []
ReactionsOrEmpty(activeCallState) ==
  IF activeCallState.reactions = None THEN <<>> ELSE activeCallState.reactions[1]

\* recentReactions of SEND_GROUP_CALL_REACTION / GROUP_CALL_REACTIONS_RECEIVED;
\* None where the branch returns the state unchanged.
recentReactions(state, action) ==
  IF action.type = GROUP_CALL_REACTIONS_RECEIVED
  THEN Some([ i \in 1..Len(action.reactions) |->
                [ timestamp |-> action.timestamp,
                  demuxId   |-> action.reactions[i].demuxId,
                  value     |-> action.reactions[i].value ] ])
  ELSE LET existingGroupCall == getGroupCall(action.conversationId, state, action.callMode) IN
       IF existingGroupCall = None THEN None
       ELSE IF Falsy(existingGroupCall[1].localDemuxId) THEN None
       ELSE Some(<< [ timestamp |-> action.timestamp,
                      demuxId   |-> existingGroupCall[1].localDemuxId,
                      value     |-> action.value ] >>)

\* The branch with the oldest reactions kept instead of the newest.
ReduceReactionsAddedKeepsOldest(state, action) ==
  IF state.activeCallState = None THEN state
  ELSE IF state.activeCallState[1].conversationId # action.conversationId THEN state
  ELSE IF recentReactions(state, action) = None THEN state
  ELSE [ state EXCEPT !.activeCallState =
           Some([ @[1] EXCEPT !.reactions =
                    Some(SliceFirst(ReactionsOrEmpty(state.activeCallState[1])
                                      \o recentReactions(state, action)[1],
                                    MAX_CALLING_REACTIONS)) ]) ]

\* SEND_GROUP_CALL_REACTION, GROUP_CALL_REACTIONS_RECEIVED
ReduceReactionsAdded(state, action) ==
  IF state.activeCallState = None THEN state
  ELSE IF state.activeCallState[1].conversationId # action.conversationId THEN state
  ELSE IF recentReactions(state, action) = None THEN state
  ELSE [ state EXCEPT !.activeCallState =
           Some([ @[1] EXCEPT !.reactions =
                    Some(SliceLast(ReactionsOrEmpty(state.activeCallState[1])
                                     \o recentReactions(state, action)[1],
                                   MAX_CALLING_REACTIONS)) ]) ]

\* The branch with the lifetime counted from the time of the dispatch, so that a
\* batch outlives its own expiry.
ReduceReactionsExpiredKeepsBatch(state, action) ==
  IF state.activeCallState = None THEN state
  ELSE IF state.activeCallState[1].conversationId # action.conversationId THEN state
  ELSE IF state.activeCallState[1].reactions = None THEN state
  ELSE LET expireAt == action.timestamp - CALLING_REACTIONS_LIFETIME
           keep(r) == r.timestamp > expireAt IN
       [ state EXCEPT !.activeCallState =
           Some([ @[1] EXCEPT !.reactions = Some(SelectSeq(@[1], keep)) ]) ]

\* GROUP_CALL_REACTIONS_EXPIRED
ReduceReactionsExpired(state, action) ==
  IF state.activeCallState = None THEN state
  ELSE IF state.activeCallState[1].conversationId # action.conversationId THEN state
  ELSE IF state.activeCallState[1].reactions = None THEN state
  ELSE LET expireAt == action.timestamp + CALLING_REACTIONS_LIFETIME
           keep(r) == r.timestamp > expireAt IN
       [ state EXCEPT !.activeCallState =
           Some([ @[1] EXCEPT !.reactions = Some(SelectSeq(@[1], keep)) ]) ]

GroupCallFieldTypes ==
  {"calling/GROUP_CALL_AUDIO_LEVELS_CHANGE", "calling/GROUP_CALL_RAISED_HANDS_CHANGE"}

DirectCallFieldTypes ==
  {"calling/REMOTE_SHARING_SCREEN_CHANGE", "calling/REMOTE_VIDEO_CHANGE"}

ActiveCallFieldTypes ==
  {"calling/RETURN_TO_ACTIVE_CALL", "calling/SET_LOCAL_AUDIO_FULFILLED",
   "calling/SET_LOCAL_VIDEO_FULFILLED", "calling/TOGGLE_SETTINGS",
   "calling/TOGGLE_PARTICIPANTS", "calling/TOGGLE_PIP", "calling/SET_PRESENTING",
   "calling/SET_PRESENTING_SOURCES", "calling/TOGGLE_NEEDS_SCREEN_RECORDING_PERMISSIONS",
   "calling/CHANGE_CALL_VIEW", "calling/SWITCH_TO_PRESENTATION_VIEW",
   "calling/SWITCH_FROM_PRESENTATION_VIEW"}

reducer(state, action) ==
  CASE action.type \in {START_CALLING_LOBBY, START_CALL_LINK_LOBBY} -> ReduceStartLobby(state, action)
    [] action.type = START_DIRECT_CALL -> ReduceStartDirectCall(state, action)
    [] action.type = ACCEPT_CALL_PENDING -> ReduceAcceptCallPending(state, action)
    [] action.type \in {CANCEL_CALL, HANG_UP, CLOSE_NEED_PERMISSION_SCREEN} -> ReduceRemoveActiveCall(state)
    [] action.type = CANCEL_INCOMING_GROUP_CALL_RING -> ReduceCancelIncomingGroupCallRing(state, action)
    [] action.type = CONVERSATION_CHANGED -> ReduceConversationChanged(state, action)
    [] action.type \in {CONVERSATION_REMOVED, DECLINE_DIRECT_CALL} ->
         removeConversationFromState(state, action.conversationId)
    [] action.type = INCOMING_DIRECT_CALL -> ReduceIncomingDirectCall(state, action)
    [] action.type = INCOMING_GROUP_CALL -> ReduceIncomingGroupCall(state, action)
    [] action.type = OUTGOING_CALL -> ReduceOutgoingCall(state, action)
    [] action.type = CALL_STATE_CHANGE_FULFILLED -> ReduceCallStateChange(state, action)
    [] action.type \in GroupCallFieldTypes -> ReduceGroupCallField(state, action)
    [] action.type = GROUP_CALL_STATE_CHANGE -> ReduceGroupCallStateChange(state, action)
    [] action.type = PEEK_GROUP_CALL_FULFILLED -> ReducePeekGroupCallFulfilled(state, action)
    [] action.type \in DirectCallFieldTypes -> ReduceDirectCallField(state, action)
    [] action.type = SET_OUTGOING_RING -> ReduceSetOutgoingRing(state, action)
    [] action.type \in ActiveCallFieldTypes -> ReduceActiveCallField(state)
    [] action.type \in {SEND_GROUP_CALL_REACTION, GROUP_CALL_REACTIONS_RECEIVED} ->
         ReduceReactionsAdded(state, action)
    [] action.type = GROUP_CALL_REACTIONS_EXPIRED -> ReduceReactionsExpired(state, action)
    [] OTHER -> state

VARIABLES
  isRunning,   \* BackupsService.isRunning
  call,        \* per caller: the frame of its exportBackup / importBackup call
  last,        \* what the call that settled most recently did and returned
  isStarted,   \* BackupsService.isStarted
  refresh,     \* the timer, the runPeriodicRefresh calls and what they logged
  drawn,       \* history: the values randomBytes has returned
  written,     \* history: the exports that resolved, in order
  calling,     \* the calling state the reducer returned last
  thunks,      \* the bag of calling thunks that are waiting for the calling service
  now          \* Date.now()

backupVars == <<isRunning, call, last>>
refreshVars == <<isStarted, refresh>>
historyVars == <<drawn, written>>
callingVars == <<calling, thunks, now>>
vars == <<backupVars, refreshVars, historyVars, callingVars>>

\* The frame of a caller with no call in flight.
NoCall ==
  [ pc           |-> "idle",      \* idle | export | pass1 | pass2
    op           |-> "none",      \* none | export | import
    phases       |-> <<>>,        \* verifier states entered, in order
    keyCalls     |-> 0,           \* calls of getKeyMaterial
    streams      |-> <<>>,        \* the sources createBackupStream returned
    factoryCalls |-> 0,           \* calls of createBackupStream
    pos          |-> 0,           \* bytes read from the current source
    macBuf       |-> <<>>,        \* getMacAndUpdateHmac: maybeMacBytes
    hmac         |-> 0,           \* let hmac
    theirMac     |-> Undefined,   \* let theirMac
    delivered    |-> <<>>,        \* records written to BackupImportStream
    records      |-> <<>>,        \* recordStream
    iv           |-> <<>>,        \* const iv
    sink         |-> <<>> ]       \* bytes written to the export sink

\* The promise of a call once settled: how it settled and what the call did.
Outcome(c, res) ==
  [ op           |-> c.op,
    result       |-> res,
    phases       |-> IF c.op = "import"
                     THEN Append(c.phases, IF res = OK THEN "Complete" ELSE "Failed")
                     ELSE c.phases,
    keyCalls     |-> c.keyCalls,
    factoryCalls |-> c.factoryCalls,
    delivered    |-> c.delivered,
    wrote        |-> c.sink # <<>> ]

\* The service before start(): no timer, no refresh in flight, nothing logged.
NoRefresh ==
  [ timers      |-> 0,        \* setInterval timers installed
    credentials |-> 0,        \* calls of credentials.start()
    immediate   |-> 0,        \* calls of runPeriodicRefresh made by start()
    triggered   |-> 0,        \* calls of runPeriodicRefresh
    pending     |-> 0,        \* of them, those awaiting api.refresh()
    log         |-> "none",   \* none | refreshed | failed | already started:
                              \* the last log entry
    unhandled   |-> 0 ]       \* runPeriodicRefresh promises that rejected

Init ==
  /\ isRunning = FALSE
  /\ call = [p \in Procs |-> NoCall]
  /\ last = Outcome(NoCall, PENDING)
  /\ isStarted = FALSE
  /\ refresh = NoRefresh
  /\ drawn = {}
  /\ written = <<>>
  /\ calling = getEmptyState
  /\ thunks = EmptyBag
  /\ now = 0

\* ------------------------------------------------------------ service code
\* (the busy check left out)
NotRunningUnchecked == TRUE

\* strictAssert(!this.isRunning, 'BackupService is already running')
NotRunning == ~isRunning

\* (the flag never set)
AcquireForgotten == UNCHANGED isRunning

\* this.isRunning = true
Acquire == isRunning' = TRUE

\* (exportBackup without its finally block: the flag stays as it was set)
ExportNoFinally(res) == isRunning' = TRUE

\* (exportBackup releasing the flag on the success path only)
ExportFinallyOnSuccess(res) ==
  IF res = OK THEN isRunning' = FALSE ELSE UNCHANGED isRunning

\* exportBackup: finally { this.isRunning = false }
ExportFinally(res) == isRunning' = FALSE

\* (the flag released on the success path only)
ImportFinallyOnSuccess(res) ==
  IF res = OK THEN isRunning' = FALSE ELSE UNCHANGED isRunning

\* importBackup: catch { log; throw error } finally { this.isRunning = false }
ImportFinally(res) == isRunning' = FALSE

\* (the busy check inside the try block: the finally block runs)
RejectedInsideTry(p, kind) ==
  /\ last' = Outcome([NoCall EXCEPT !.op = kind,
                                    !.phases = IF kind = "import" THEN <<"Idle">> ELSE <<>>],
                     BUSY)
  /\ isRunning' = FALSE
  /\ UNCHANGED call

\* The call throws at the strictAssert: nothing after it runs.
Rejected(p, kind) ==
  /\ last' = Outcome([NoCall EXCEPT !.op = kind,
                                    !.phases = IF kind = "import" THEN <<"Idle">> ELSE <<>>],
                     BUSY)
  /\ UNCHANGED <<isRunning, call>>

\* exportBackup rejects or resolves: the frame is gone.
ExportSettle(p, c, res) ==
  /\ call' = [call EXCEPT ![p] = NoCall]
  /\ last' = Outcome(c, res)
  /\ ExportFinally(res)

\* (the catch block logs the error and does not rethrow it)
ImportCatchSwallow(res) == OK

\* importBackup: catch (error) { log.info(...); throw error }: what leaves the
\* try statement is what was thrown inside it.
ImportCatch(res) == res

\* importBackup rejects (catch: log, rethrow) or resolves, then finally.
ImportSettle(p, c, res) ==
  /\ call' = [call EXCEPT ![p] = NoCall]
  /\ last' = Outcome(c, ImportCatch(res))
  /\ ImportFinally(res)

\* exportBackup(sink), up to its await: the busy check, the flag,
\* getKeyMaterial, the record stream, the IV (randomBytes returning one of
\* ivs) and the pipeline.
ExportBackupOf(p, ivs) ==
  /\ call[p].pc = "idle"
  /\ IF ~NotRunning
     THEN Rejected(p, "export")
     ELSE \/ ExportSettle(p, [NoCall EXCEPT !.op = "export", !.keyCalls = 1],
                          KEY_ERROR)                   \* getKeyMaterial throws
          \/ \E records \in RecordStreams, iv \in ivs :
               /\ call' = [call EXCEPT ![p] =
                             [NoCall EXCEPT !.op = "export", !.pc = "export",
                                            !.keyCalls = 1,
                                            !.records = records, !.iv = iv]]
               /\ Acquire
               /\ UNCHANGED last

ExportBackup(p) == ExportBackupOf(p, IVs)

\* The export pipeline hands the next chunk of the envelope to the sink.
ExportChunk(p, n) ==
  LET c == call[p]
      env == EnvelopeOf(c.records, c.iv)
  IN  /\ c.pc = "export"
      /\ Len(c.sink) < Len(env)
      /\ call' = [call EXCEPT ![p].sink = Take(env, Len(c.sink) + n)]
      /\ UNCHANGED <<isRunning, last>>

\* (the await resolves without waiting for the sink to receive the whole chain)
ExportEndEarly(p) ==
  LET c == call[p]
  IN  /\ c.pc = "export"
      /\ ExportSettle(p, c, OK)

\* The export pipeline finishes: the await resolves, then the finally block.
ExportEnd(p) ==
  LET c == call[p]
  IN  /\ c.pc = "export"
      /\ c.sink = EnvelopeOf(c.records, c.iv)
      /\ ExportSettle(p, c, OK)

\* A stage of the export pipeline errors: the await rejects, then finally.
ExportStageError(p) ==
  LET c == call[p]
  IN  /\ c.pc = "export"
      /\ ExportSettle(p, c, STAGE_ERROR)

\* The source the current pass reads.
CurrentStream(c) == c.streams[Len(c.streams)]

NextChunk(c, n) ==
  SubSeq(CurrentStream(c), c.pos + 1, Min(c.pos + n, Len(CurrentStream(c))))

\* getMacAndUpdateHmac, transform(chunk): all but the last MAC_LENGTH bytes
\* seen so far are hashed and passed on.
MacTransform(c, chunk) ==
  LET buf == c.macBuf \o chunk
  IN  [c EXCEPT !.pos = @ + Len(chunk),
                !.macBuf = Last(buf, MAC_LENGTH),
                !.hmac = hmacUpdate(@, Take(buf, Len(buf) - MAC_LENGTH))]

\* getMacAndUpdateHmac, flush: the value onTheirMac receives, if it is called.
MacFlush(macBuf) == IF Len(macBuf) = MAC_LENGTH THEN macBuf ELSE Undefined

\* (pass 2 without the MAC stage: the trailing MAC reaches the decipher)
ForwardedWithMac(c) == Take(CurrentStream(c), c.pos)

\* The bytes that have left the MAC stage.
Forwarded(c) == Take(CurrentStream(c), c.pos - Len(c.macBuf))

\* importBackup(createBackupStream), up to its first await, with a factory
\* whose first source is one of sources.
ImportBackupOf(p, sources) ==
  /\ call[p].pc = "idle"
  /\ IF ~NotRunning
     THEN Rejected(p, "import")
     ELSE \/ ImportSettle(p, [NoCall EXCEPT !.op = "import", !.keyCalls = 1,
                                            !.phases = <<"Idle">>],
                          KEY_ERROR)                   \* getKeyMaterial throws
          \/ \E s \in sources :
               /\ call' = [call EXCEPT ![p] =
                             [NoCall EXCEPT !.op = "import", !.pc = "pass1",
                                            !.keyCalls = 1,
                                            !.phases = <<"Idle", "Pass1Verifying">>,
                                            !.hmac = createHmac(macKey),
                                            !.streams = <<s>>, !.factoryCalls = 1]]
               /\ Acquire
               /\ UNCHANGED last

ImportBackup(p) == ImportBackupOf(p, Streams)

\* Pass 1: the source emits a chunk; the payload is discarded.
Pass1Chunk(p, n) ==
  LET c == call[p]
  IN  /\ c.pc = "pass1"
      /\ c.pos < Len(CurrentStream(c))
      /\ call' = [call EXCEPT ![p] = MacTransform(c, NextChunk(c, n))]
      /\ UNCHANGED <<isRunning, last>>

\* (pass 2 going on with the accumulator of pass 1)
StartPass2SameHmac(c, mac, s) ==
  [c EXCEPT !.pc = "pass2", !.theirMac = mac,
            !.phases = @ \o <<"Pass1Done", "Pass2Decrypting">>,
            !.streams = Append(@, s), !.factoryCalls = @ + 1,
            !.pos = 0, !.macBuf = <<>>]

\* What importBackup does between the two pipelines: with the MAC checks
\* passed, a fresh hmac and the second source s.
StartPass2(c, mac, s) ==
  [c EXCEPT !.pc = "pass2", !.theirMac = mac,
            !.phases = @ \o <<"Pass1Done", "Pass2Decrypting">>,
            !.hmac = createHmac(macKey),
            !.streams = Append(@, s), !.factoryCalls = @ + 1,
            !.pos = 0, !.macBuf = <<>>]

\* (the 'Bad MAC' strictAssert left out)
Pass1EndNoBadMac(p) ==
  LET c == call[p]
      mac == MacFlush(c.macBuf)
  IN  /\ c.pc = "pass1"
      /\ c.pos = Len(CurrentStream(c))
      /\ IF mac = Undefined
         THEN ImportSettle(p, c, MISSING_MAC)
         ELSE /\ \E s \in SecondStreams(CurrentStream(c)) :
                   call' = [call EXCEPT ![p] = StartPass2(c, mac, s)]
              /\ UNCHANGED <<isRunning, last>>

\* (the 'Missing MAC' strictAssert left out)
Pass1EndNoMissingMac(p) ==
  LET c == call[p]
      mac == MacFlush(c.macBuf)
  IN  /\ c.pc = "pass1"
      /\ c.pos = Len(CurrentStream(c))
      /\ IF ~constantTimeEqual(hmacDigest(c.hmac), mac)
         THEN ImportSettle(p, [c EXCEPT !.theirMac = mac], BAD_MAC)
         ELSE /\ \E s \in SecondStreams(CurrentStream(c)) :
                   call' = [call EXCEPT ![p] = StartPass2(c, mac, s)]
              /\ UNCHANGED <<isRunning, last>>

\* Pass 1 ends: flush, the await resolves, the two strictAsserts, and the
\* start of pass 2 on a second source that is one of seconds.
Pass1EndOf(p, seconds) ==
  LET c == call[p]
      mac == MacFlush(c.macBuf)
  IN  /\ c.pc = "pass1"
      /\ c.pos = Len(CurrentStream(c))
      /\ IF mac = Undefined
         THEN ImportSettle(p, c, MISSING_MAC)
         ELSE IF ~constantTimeEqual(hmacDigest(c.hmac), mac)
         THEN ImportSettle(p, [c EXCEPT !.theirMac = mac], BAD_MAC)
         ELSE /\ \E s \in seconds :
                   call' = [call EXCEPT ![p] = StartPass2(c, mac, s)]
              /\ UNCHANGED <<isRunning, last>>

Pass1End(p) == Pass1EndOf(p, SecondStreams(CurrentStream(call[p])))

\* Pass 2: the source emits a chunk; what leaves the MAC stage is deciphered,
\* unzipped, reframed and written to BackupImportStream.
Pass2Chunk(p, n) ==
  LET c == call[p]
  IN  /\ c.pc = "pass2"
      /\ c.pos < Len(CurrentStream(c))
      /\ \E d \in { MacTransform(c, NextChunk(c, n)) } :
         \E out \in { Pass2(Forwarded(d), FALSE) } :
           LET e == [d EXCEPT !.delivered = out.records]
           IN  IF out.error
               THEN ImportSettle(p, e, STAGE_ERROR)
               ELSE /\ call' = [call EXCEPT ![p] = e]
                    /\ UNCHANGED <<isRunning, last>>

\* (the second strictAssert left out)
SecondCheckSkipped(c) == OK

\* (the second strictAssert throwing the message of the first)
SecondCheckSamePass(c) ==
  IF constantTimeEqual(hmacDigest(c.hmac), c.theirMac) THEN OK ELSE BAD_MAC

\* (the second strictAssert comparing with the trailer of the pass 2 source)
SecondCheckOwnTrailer(c) ==
  IF constantTimeEqual(hmacDigest(c.hmac), c.macBuf) THEN OK ELSE BAD_MAC_2

\* The second check: strictAssert(constantTimeEqual(hmac.digest(), theirMac)).
SecondCheck(c) ==
  IF constantTimeEqual(hmacDigest(c.hmac), c.theirMac) THEN OK ELSE BAD_MAC_2

\* (an error of the pass 2 pipeline swallowed)
Pass2EndSwallow(p) ==
  LET c == call[p]
      e == [c EXCEPT !.delivered = Pass2(Forwarded(c), TRUE).records]
  IN  /\ c.pc = "pass2"
      /\ c.pos = Len(CurrentStream(c))
      /\ ImportSettle(p, [e EXCEPT !.phases = Append(@, "Pass2Verifying")],
                      SecondCheck(e))

\* Pass 2 ends: every stage flushes, the await resolves, the last strictAssert.
Pass2End(p) ==
  LET c == call[p]
      e == [c EXCEPT !.delivered = Pass2(Forwarded(c), TRUE).records]
  IN  /\ c.pc = "pass2"
      /\ c.pos = Len(CurrentStream(c))
      /\ IF Pass2(Forwarded(c), TRUE).error
         THEN ImportSettle(p, e, STAGE_ERROR)
         ELSE ImportSettle(p, [e EXCEPT !.phases = Append(@, "Pass2Verifying")],
                           SecondCheck(e))

\* The source or the sink of the running import pipeline errors.
ImportStageError(p) ==
  LET c == call[p]
  IN  /\ c.pc \in {"pass1", "pass2"}
      /\ ImportSettle(p, c, STAGE_ERROR)

\* A step of exportBackup or importBackup touches neither the refresh state
\* nor the histories.
BackupOnly == UNCHANGED <<refreshVars, historyVars, callingVars>>

Next ==
  \/ \E p \in Procs : ExportBackup(p) /\ BackupOnly
  \/ \E p \in Procs, n \in ChunkSizes : ExportChunk(p, n) /\ BackupOnly
  \/ \E p \in Procs : ExportEnd(p) /\ BackupOnly
  \/ \E p \in Procs : ExportStageError(p) /\ BackupOnly
  \/ \E p \in Procs : ImportBackup(p) /\ BackupOnly
  \/ \E p \in Procs, n \in ChunkSizes : Pass1Chunk(p, n) /\ BackupOnly
  \/ \E p \in Procs : Pass1End(p) /\ BackupOnly
  \/ \E p \in Procs, n \in ChunkSizes : Pass2Chunk(p, n) /\ BackupOnly
  \/ \E p \in Procs : Pass2End(p) /\ BackupOnly
  \/ \E p \in Procs : ImportStageError(p) /\ BackupOnly

Spec == Init /\ [][Next]_vars

\* Imports whose first source is an envelope or a proper prefix of one: what an
\* export that stopped partway left in its sink.
ImportPartial(p) == ImportBackupOf(p, ValidEnvelopes \cup PartialEnvelopes)

TruncationNext ==
  \/ \E p \in Procs : ImportPartial(p) /\ BackupOnly
  \/ \E p \in Procs, n \in ChunkSizes : Pass1Chunk(p, n) /\ BackupOnly
  \/ \E p \in Procs : Pass1End(p) /\ BackupOnly
  \/ \E p \in Procs, n \in ChunkSizes : Pass2Chunk(p, n) /\ BackupOnly
  \/ \E p \in Procs : Pass2End(p) /\ BackupOnly
  \/ \E p \in Procs : ImportStageError(p) /\ BackupOnly

TruncationSpec == Init /\ [][TruncationNext]_vars

\* (an IV kept by the service and used by every export)
StoredIv(used) == { [i \in 1..IV_LENGTH |-> 0] }

\* randomBytes(IV_LENGTH) in a call made after the generator has returned the
\* values used: a cryptographic generator does not return a 16-byte value
\* twice.
randomBytes(used) == FreshIVs \ used

\* exportBackup with the generator's draws recorded.
ExportFresh(p) ==
  /\ Len(written) < MaxExports
  /\ ExportBackupOf(p, randomBytes(drawn))
  /\ drawn' = IF call'[p].pc = "export" THEN drawn \cup {call'[p].iv} ELSE drawn
  /\ UNCHANGED <<written, refreshVars, callingVars>>

\* exportBackup resolves: what it was given and what its sink received.
ExportEndRecorded(p) ==
  /\ ExportEnd(p)
  /\ written' = Append(written, [records |-> call[p].records, sink |-> call[p].sink])
  /\ UNCHANGED <<drawn, refreshVars, callingVars>>

IvNext ==
  \/ \E p \in Procs : ExportFresh(p)
  \/ \E p \in Procs, n \in ChunkSizes : ExportChunk(p, n) /\ BackupOnly
  \/ \E p \in Procs : ExportEndRecorded(p)
  \/ \E p \in Procs : ExportStageError(p) /\ BackupOnly

IvSpec == Init /\ [][IvNext]_vars

\* ------------------------------------------------- start and the refresh
\* runPeriodicRefresh up to its await: api.refresh() has been called.
runPeriodicRefresh(r) == [r EXCEPT !.triggered = @ + 1, !.pending = @ + 1]

\* (runPeriodicRefresh without its try statement: the rejection leaves it)
RefreshCatchMissing(r) == [r EXCEPT !.pending = @ - 1, !.unhandled = @ + 1]

\* runPeriodicRefresh: catch (error) { log.error('Backup: periodic refresh
\* failed', ...) }; the promise resolves.
RefreshCatch(r) == [r EXCEPT !.pending = @ - 1, !.log = "failed"]

\* (start() without its isStarted check)
StartUnguarded ==
  /\ isStarted' = TRUE
  /\ refresh' = [runPeriodicRefresh(refresh) EXCEPT !.timers = @ + 1,
                                                    !.immediate = @ + 1,
                                                    !.credentials = @ + 1]
  /\ UNCHANGED <<backupVars, historyVars, callingVars>>

\* start(): a warning when already started; otherwise the flag, the timer,
\* the immediate refresh and credentials.start().
Start ==
  /\ IF isStarted
     THEN /\ refresh' = [refresh EXCEPT !.log = "already started"]
          /\ UNCHANGED isStarted
     ELSE /\ isStarted' = TRUE
          /\ refresh' = [runPeriodicRefresh(refresh) EXCEPT !.timers = @ + 1,
                                                            !.immediate = @ + 1,
                                                            !.credentials = @ + 1]
  /\ UNCHANGED <<backupVars, historyVars, callingVars>>

\* The setInterval callback: drop(this.runPeriodicRefresh()).
TimerFire ==
  /\ refresh.timers > 0
  /\ refresh.triggered < MaxRefreshes
  /\ refresh' = runPeriodicRefresh(refresh)
  /\ UNCHANGED <<isStarted, backupVars, historyVars, callingVars>>

\* api.refresh() resolves: log.info('Backup: refreshed').
RefreshResolves ==
  /\ refresh.pending > 0
  /\ refresh' = [refresh EXCEPT !.pending = @ - 1, !.log = "refreshed"]
  /\ UNCHANGED <<isStarted, backupVars, historyVars, callingVars>>

\* api.refresh() rejects: the catch block.
RefreshRejects ==
  /\ refresh.pending > 0
  /\ refresh' = RefreshCatch(refresh)
  /\ UNCHANGED <<isStarted, backupVars, historyVars, callingVars>>

\* The imports that run beside the refresh read RefreshSources.
ImportBesideRefresh(p) == ImportBackupOf(p, RefreshSources)

\* The exports that run beside the refresh draw one IV.
ExportBesideRefresh(p) == ExportBackupOf(p, { [i \in 1..IV_LENGTH |-> i] })

\* The factory replays its source.
Pass1EndReplay(p) == Pass1EndOf(p, {CurrentStream(call[p])})

RefreshNext ==
  \/ Start
  \/ TimerFire
  \/ RefreshResolves
  \/ RefreshRejects
  \/ \E p \in Procs : ExportBesideRefresh(p) /\ BackupOnly
  \/ \E p \in Procs, n \in ChunkSizes : ExportChunk(p, n) /\ BackupOnly
  \/ \E p \in Procs : ExportEnd(p) /\ BackupOnly
  \/ \E p \in Procs : ExportStageError(p) /\ BackupOnly
  \/ \E p \in Procs : ImportBesideRefresh(p) /\ BackupOnly
  \/ \E p \in Procs, n \in ChunkSizes : Pass1Chunk(p, n) /\ BackupOnly
  \/ \E p \in Procs : Pass1EndReplay(p) /\ BackupOnly
  \/ \E p \in Procs, n \in ChunkSizes : Pass2Chunk(p, n) /\ BackupOnly
  \/ \E p \in Procs : Pass2End(p) /\ BackupOnly
  \/ \E p \in Procs : ImportStageError(p) /\ BackupOnly

RefreshSpec == Init /\ [][RefreshNext]_vars

\* ------------------------------------------------------------- fairness
\* Exports and imports of RefreshSources alone.
LiveNext ==
  \/ \E p \in Procs : ExportBesideRefresh(p) /\ BackupOnly
  \/ \E p \in Procs, n \in ChunkSizes : ExportChunk(p, n) /\ BackupOnly
  \/ \E p \in Procs : ExportEnd(p) /\ BackupOnly
  \/ \E p \in Procs : ExportStageError(p) /\ BackupOnly
  \/ \E p \in Procs : ImportBesideRefresh(p) /\ BackupOnly
  \/ \E p \in Procs, n \in ChunkSizes : Pass1Chunk(p, n) /\ BackupOnly
  \/ \E p \in Procs : Pass1EndReplay(p) /\ BackupOnly
  \/ \E p \in Procs, n \in ChunkSizes : Pass2Chunk(p, n) /\ BackupOnly
  \/ \E p \in Procs : Pass2End(p) /\ BackupOnly
  \/ \E p \in Procs : ImportStageError(p) /\ BackupOnly

\* The pipeline of p's call moves on: its source hands over a chunk, or the
\* last stage finishes and the await resolves.
Progress(p) ==
  /\ \/ \E n \in ChunkSizes : ExportChunk(p, n) \/ Pass1Chunk(p, n) \/ Pass2Chunk(p, n)
     \/ ExportEnd(p)
     \/ Pass1EndReplay(p)
     \/ Pass2End(p)
  /\ BackupOnly

\* Every stage, source and sink of a running pipeline eventually ends (or
\* errors): a pipeline that can move on does.
FairSpec == Init /\ [][LiveNext]_vars /\ \A p \in Procs : WF_vars(Progress(p))

\* ------------------------------------------------------------ calling thunks
\* The kind of conversation an id names: "a" is a direct conversation, "b"
\* a group, "r" the room of a call link.
Rooms == {"r"}

getConversationCallMode(conversationId) == IF conversationId = "a" THEN Direct ELSE Group

ConnectionStates == {NotConnected, Connecting, Connected, Reconnecting}

\* The join state RingRTC reports together with a connection state.
JoinStateOf(connectionState) ==
  CASE connectionState = NotConnected -> NotJoined
    [] connectionState = Connecting -> Joining
    [] OTHER -> Joined

\* What a peek can return.
PeekResults == {PeekInfo(1, "era1"), PeekInfo(2, "era2")}

\* A step of the store or of a thunk takes no time.
CallingOnly == UNCHANGED <<backupVars, refreshVars, historyVars, now>>

\* store.dispatch(action)
Dispatch(action) ==
  /\ calling' = reducer(calling, action)
  /\ UNCHANGED thunks
  /\ CallingOnly

\* Another thunk can start.
CanStart == BagCardinality(thunks) < NumThunks

Waiting == BagToSet(thunks)

Starts(th) == thunks' = thunks (+) SetToBag({th})

Ends(th) == thunks' = thunks (-) SetToBag({th})

LobbyKinds == {"startCallingLobby", "startCallLinkLobby"}

\* startCallingLobby up to its await: the strictAssert lets the thunk go
\* on only when no call is active.
StartCallingLobby(conversationId) ==
  /\ CanStart
  /\ calling.activeCallState = None
  /\ Starts([ kind |-> "startCallingLobby", conversationId |-> conversationId,
              callMode |-> getConversationCallMode(conversationId) ])
  /\ UNCHANGED calling
  /\ CallingOnly

\* _startCallLinkLobby up to its first await: with an active call it shows
\* the error modal and returns.
StartCallLinkLobby(roomId) ==
  /\ CanStart
  /\ calling.activeCallState = None
  /\ Starts([kind |-> "startCallLinkLobby", conversationId |-> roomId, callMode |-> Adhoc])
  /\ UNCHANGED calling
  /\ CallingOnly

\* What the calling service hands back for a lobby.
LobbyData(th) ==
  IF th.callMode = Direct
  THEN { [callMode |-> Direct] }
  ELSE { [ callMode |-> th.callMode, connectionState |-> NotConnected,
           joinState |-> NotJoined, peekInfo |-> None, remoteParticipants |-> 0 ] }

LobbyAction(th, callLobbyData) ==
  [ type |-> IF th.kind = "startCallingLobby" THEN START_CALLING_LOBBY ELSE START_CALL_LINK_LOBBY,
    callMode |-> callLobbyData.callMode,
    conversationId |-> th.conversationId,
    connectionState |-> IF callLobbyData.callMode = Direct THEN Absent ELSE callLobbyData.connectionState,
    joinState |-> IF callLobbyData.callMode = Direct THEN Absent ELSE callLobbyData.joinState,
    peekInfo |-> IF callLobbyData.callMode = Direct THEN None ELSE callLobbyData.peekInfo,
    remoteParticipants |-> IF callLobbyData.callMode = Direct THEN 0 ELSE callLobbyData.remoteParticipants,
    isConversationTooBigToRing |-> FALSE ]

\* The awaited calling service returned lobby data: the thunk dispatches.
LobbyDispatches(th) ==
  /\ th \in Waiting
  /\ th.kind \in LobbyKinds
  /\ \E callLobbyData \in LobbyData(th) :
       calling' = reducer(calling, LobbyAction(th, callLobbyData))
  /\ Ends(th)
  /\ CallingOnly

\* The awaited calling service returned nothing: the thunk returns.
LobbyReturns(th) ==
  /\ th \in Waiting
  /\ th.kind \in LobbyKinds
  /\ Ends(th)
  /\ UNCHANGED calling
  /\ CallingOnly

\* doGroupCallPeek up to the awaits of its queued task: no peek for a
\* conversation that is not a group or a room without call link, and none
\* while callsByConversation holds a group call that is not NotConnected.
DoGroupCallPeek(conversationId, callMode) ==
  /\ CanStart
  /\ IF callMode = Group
     THEN conversationId \in Conversations /\ getConversationCallMode(conversationId) = Group
     ELSE conversationId \in calling.callLinks
  /\ LET existingCall == getOwn(calling.callsByConversation, conversationId)
     IN  ~(isGroupOrAdhocCallState(existingCall) /\ existingCall[1].connectionState # NotConnected)
  /\ Starts([kind |-> "doGroupCallPeek", conversationId |-> conversationId, callMode |-> callMode])
  /\ UNCHANGED calling
  /\ CallingOnly

PeekAction(th, peekInfo) ==
  [ type |-> PEEK_GROUP_CALL_FULFILLED, callMode |-> th.callMode,
    conversationId |-> th.conversationId, peekInfo |-> peekInfo ]

\* The peek resolved with a result: PEEK_GROUP_CALL_FULFILLED is dispatched.
PeekDispatches(th, peekInfo) ==
  /\ th \in Waiting
  /\ th.kind = "doGroupCallPeek"
  /\ calling' = reducer(calling, PeekAction(th, peekInfo))
  /\ Ends(th)
  /\ CallingOnly

\* The peek failed or found nothing: the task returns.
PeekReturns(th) ==
  /\ th \in Waiting
  /\ th.kind = "doGroupCallPeek"
  /\ Ends(th)
  /\ UNCHANGED calling
  /\ CallingOnly

GroupCallStateChange(callMode, conversationId, connectionState) ==
  [ type |-> GROUP_CALL_STATE_CHANGE, callMode |-> callMode,
    conversationId |-> conversationId, connectionState |-> connectionState,
    joinState |-> JoinStateOf(connectionState),
    localDemuxId |-> IF connectionState = NotConnected THEN Absent ELSE "1",
    peekInfo |-> None, remoteParticipants |-> 0 ]

\* What arrives from RingRTC and the user while thunks are waiting.
ThunkEnvironment ==
  { GroupCallStateChange(Group, "b", cs) : cs \in ConnectionStates }
    \cup { GroupCallStateChange(Adhoc, r, cs) : r \in Rooms, cs \in ConnectionStates }
    \cup { [type |-> HANG_UP],
           [type |-> INCOMING_DIRECT_CALL, conversationId |-> "a"],
           [type |-> ACCEPT_CALL_PENDING, conversationId |-> "a"] }

ThunkNext ==
  \/ \E conversationId \in Conversations : StartCallingLobby(conversationId)
  \/ \E roomId \in Rooms : StartCallLinkLobby(roomId)
  \/ \E th \in Waiting : LobbyDispatches(th)
  \/ \E th \in Waiting : LobbyReturns(th)
  \/ DoGroupCallPeek("b", Group)
  \/ \E roomId \in Rooms : DoGroupCallPeek(roomId, Adhoc)
  \/ \E th \in Waiting, peekInfo \in PeekResults : PeekDispatches(th, peekInfo)
  \/ \E th \in Waiting : PeekReturns(th)
  \/ \E action \in ThunkEnvironment : Dispatch(action)

ThunkSpec == Init /\ [][ThunkNext]_vars

\* ------------------------------------------------------- the reducer alone
\* The actions handed to the reducer in CallingSpec: every action type that
\* reads or writes the calls or the active call, for both conversations.
\* Call links use room ids; "b" is also a room id, so that a call of
\* callsByConversation and one of adhocCalls can have the same key.
SharedRooms == {"b"}

\* The call modes an action for this id can carry.
GroupModes(id) == IF id \in SharedRooms THEN {Group, Adhoc} ELSE {Group}

LobbyActions ==
  { [ type |-> START_CALLING_LOBBY, callMode |-> m, conversationId |-> id,
      connectionState |-> IF m = Direct THEN Absent ELSE NotConnected,
      joinState |-> IF m = Direct THEN Absent ELSE NotJoined,
      peekInfo |-> None, remoteParticipants |-> 0,
      isConversationTooBigToRing |-> FALSE ] :
      m \in {Direct, Group}, id \in Conversations }
    \cup
  { [ type |-> START_CALL_LINK_LOBBY, callMode |-> Adhoc, conversationId |-> id,
      connectionState |-> NotConnected, joinState |-> NotJoined,
      peekInfo |-> None, remoteParticipants |-> 0,
      isConversationTooBigToRing |-> FALSE ] : id \in SharedRooms }

DirectCallActions ==
  { [type |-> ty, conversationId |-> id] :
      ty \in {START_DIRECT_CALL, OUTGOING_CALL, INCOMING_DIRECT_CALL, ACCEPT_CALL_PENDING},
      id \in Conversations }

RemoveActiveCallActions ==
  { [type |-> ty] : ty \in {CANCEL_CALL, HANG_UP, CLOSE_NEED_PERMISSION_SCREEN} }

RemoveConversationActions ==
  { [type |-> ty, conversationId |-> id] :
      ty \in {CONVERSATION_REMOVED, DECLINE_DIRECT_CALL}, id \in Conversations }

RingActions ==
  { [type |-> INCOMING_GROUP_CALL, conversationId |-> id, ringId |-> "1", ringerAci |-> "u1"] :
      id \in Conversations }
    \cup
  { [type |-> CANCEL_INCOMING_GROUP_CALL_RING, conversationId |-> id, ringId |-> "1"] :
      id \in Conversations }

ConversationChangedActions ==
  { [type |-> CONVERSATION_CHANGED, conversationId |-> id, isConversationTooBigToRing |-> TRUE] :
      id \in Conversations }

\* callState, callEndedReason and acceptedTime as RingRTC reports them.
CallStateChanges ==
  { [callState |-> Accepted, callEndedReason |-> Absent, acceptedTime |-> "t1"],
    [callState |-> Ended, callEndedReason |-> Absent, acceptedTime |-> "null"],
    [callState |-> Ended, callEndedReason |-> RemoteHangup, acceptedTime |-> "t1"],
    [callState |-> Ended, callEndedReason |-> RemoteHangupNeedPermission, acceptedTime |-> "null"] }

CallStateChangeActions ==
  { [ type |-> CALL_STATE_CHANGE_FULFILLED, conversationId |-> id,
      callState |-> ch.callState, callEndedReason |-> ch.callEndedReason,
      acceptedTime |-> ch.acceptedTime ] : id \in Conversations, ch \in CallStateChanges }

GroupCallStateChangeActions ==
  UNION { { GroupCallStateChange(m, id, cs) :
              m \in GroupModes(id), cs \in {NotConnected, Connected} } : id \in Conversations }

PeekActions ==
  UNION { { [ type |-> PEEK_GROUP_CALL_FULFILLED, callMode |-> m, conversationId |-> id,
                peekInfo |-> PeekInfo(1, "era1") ] : m \in {Direct} \cup GroupModes(id) } :
          id \in Conversations }

FieldActions ==
  UNION { { [type |-> ty, callMode |-> m, conversationId |-> id] :
              ty \in GroupCallFieldTypes, m \in GroupModes(id) } : id \in Conversations }
    \cup { [type |-> "calling/REMOTE_VIDEO_CHANGE", conversationId |-> id] : id \in Conversations }
    \cup { [type |-> "calling/TOGGLE_PIP"] }
    \cup { [type |-> SET_OUTGOING_RING, payload |-> b] : b \in BOOLEAN }

CallingNext ==
  \/ \E action \in LobbyActions : Dispatch(action)
  \/ \E action \in DirectCallActions : Dispatch(action)
  \/ \E action \in RemoveActiveCallActions : Dispatch(action)
  \/ \E action \in RemoveConversationActions : Dispatch(action)
  \/ \E action \in RingActions : Dispatch(action)
  \/ \E action \in ConversationChangedActions : Dispatch(action)
  \/ \E action \in CallStateChangeActions : Dispatch(action)
  \/ \E action \in GroupCallStateChangeActions : Dispatch(action)
  \/ \E action \in PeekActions : Dispatch(action)
  \/ \E action \in FieldActions : Dispatch(action)

CallingSpec == Init /\ [][CallingNext]_vars

\* ------------------------------------------------------------- ring state
\* The rings RingRTC announces and cancels: a ring id (a bigint) and the
\* ACI of the member who rings.
RingIds == {"1", "2"}

RingerAcis == {"u1", "u2"}

\* Connection and join state as a group call reports them together.
GroupCallPhases ==
  { <<NotConnected, NotJoined>>, <<Connected, NotJoined>>,
    <<Connecting, Joining>>, <<Connected, Joined>> }

GroupCallStateChangeTo(callMode, conversationId, phase) ==
  [ GroupCallStateChange(callMode, conversationId, phase[1]) EXCEPT
      !.joinState = phase[2],
      !.localDemuxId = IF phase[2] = NotJoined THEN Absent ELSE "1" ]

IncomingGroupCallActions ==
  { [type |-> INCOMING_GROUP_CALL, conversationId |-> id, ringId |-> r, ringerAci |-> u] :
      id \in Conversations, r \in RingIds, u \in RingerAcis }

CancelRingActions ==
  { [type |-> CANCEL_INCOMING_GROUP_CALL_RING, conversationId |-> id, ringId |-> r] :
      id \in Conversations, r \in RingIds }

RingStateChangeActions ==
  { GroupCallStateChangeTo(Group, id, ph) : id \in Conversations, ph \in GroupCallPhases }

\* What else creates, activates and removes the calls that ring.
RingEnvironment ==
  { a \in LobbyActions : a.callMode = Group }
    \cup { [type |-> HANG_UP],
           [type |-> INCOMING_DIRECT_CALL, conversationId |-> "a"],
           [type |-> CONVERSATION_REMOVED, conversationId |-> "a"],
           [type |-> CONVERSATION_REMOVED, conversationId |-> "b"],
           [type |-> PEEK_GROUP_CALL_FULFILLED, callMode |-> Group, conversationId |-> "b", peekInfo |-> PeekInfo(1, "era1")] }

RingNext ==
  \/ \E action \in IncomingGroupCallActions : Dispatch(action)
  \/ \E action \in CancelRingActions : Dispatch(action)
  \/ \E action \in RingStateChangeActions : Dispatch(action)
  \/ \E action \in RingEnvironment : Dispatch(action)

RingSpec == Init /\ [][RingNext]_vars

\* ------------------------------------------------------------- reactions
\* The clock is read up to MaxTime.
MaxTime == 3

\* Demux ids of the remote members, local demux id being "1".
RemoteDemuxIds == <<"2", "3">>

\* What calling.ts hands to receiveGroupCallReactions: batches of one reaction
\* up to one more than the reducer keeps.
ReactionBatches ==
  { [ i \in 1..n |-> [demuxId |-> RemoteDemuxIds[1 + (i % 2)], value |-> "v"] ] :
      n \in 1..(MAX_CALLING_REACTIONS + 1) }

\* A thunk in its sleep(CALLING_REACTIONS_LIFETIME).
ReactionThunk(conversationId, timestamp) ==
  [ kind |-> "reactions", conversationId |-> conversationId, timestamp |-> timestamp ]

\* The thunk's sleep ends within the time the clock is read.
CanSleep == now + CALLING_REACTIONS_LIFETIME <= MaxTime

\* receiveGroupCallReactions up to its sleep
ReceiveGroupCallReactions(conversationId, reactions) ==
  /\ CanStart
  /\ CanSleep
  /\ calling' = reducer(calling, [ type |-> GROUP_CALL_REACTIONS_RECEIVED,
                                   callMode |-> Group, conversationId |-> conversationId,
                                   reactions |-> reactions, timestamp |-> now ])
  /\ Starts(ReactionThunk(conversationId, now))
  /\ CallingOnly

\* sendGroupCallReaction up to its sleep
SendGroupCallReaction(conversationId, value) ==
  /\ CanStart
  /\ CanSleep
  /\ calling' = reducer(calling, [ type |-> SEND_GROUP_CALL_REACTION,
                                   callMode |-> Group, conversationId |-> conversationId,
                                   value |-> value, timestamp |-> now ])
  /\ Starts(ReactionThunk(conversationId, now))
  /\ CallingOnly

\* Either thunk after its sleep: the sleep lasts CALLING_REACTIONS_LIFETIME
\* at least.
ReactionsExpire(th) ==
  /\ th \in Waiting
  /\ th.kind = "reactions"
  /\ now >= th.timestamp + CALLING_REACTIONS_LIFETIME
  /\ calling' = reducer(calling, [ type |-> GROUP_CALL_REACTIONS_EXPIRED,
                                   conversationId |-> th.conversationId,
                                   timestamp |-> th.timestamp ])
  /\ Ends(th)
  /\ CallingOnly

\* Date.now() moves on.
Tick ==
  /\ now < MaxTime
  /\ now' = now + 1
  /\ UNCHANGED <<calling, thunks, backupVars, refreshVars, historyVars>>

\* The calls reactions belong to: lobbies of the two groups, the join, the
\* hang-up.
ReactionEnvironment ==
  { a \in LobbyActions : a.callMode = Group }
    \cup { GroupCallStateChangeTo(Group, id, ph) :
             id \in Conversations, ph \in { <<Connected, Joined>>, <<Connected, NotJoined>> } }
    \cup { [type |-> HANG_UP] }

\* The group whose call the reactions are sent and received in.
ReactionConversations == {"b"}

ReactionThunks ==
  { ReactionThunk(id, ts) : id \in ReactionConversations, ts \in 0..MaxTime }

ReactionNext ==
  \/ \E id \in ReactionConversations, reactions \in ReactionBatches :
       ReceiveGroupCallReactions(id, reactions)
  \/ \E id \in ReactionConversations : SendGroupCallReaction(id, "v")
  \/ \E th \in ReactionThunks : ReactionsExpire(th)
  \/ Tick
  \/ \E action \in ReactionEnvironment : Dispatch(action)

ReactionSpec == Init /\ [][ReactionNext]_vars

\* The clock moves on, and of the sleeps that are over one ends.
ReactionFairSpec ==
  /\ ReactionSpec
  /\ WF_vars(Tick)
  /\ WF_vars(\E th \in ReactionThunks : ReactionsExpire(th))

\* ============================================================== properties
InFlight(p) == call[p].pc # "idle"
AnyInFlight == \E p \in Procs : InFlight(p)
Calls(p) == ExportBackup(p) \/ ImportBackup(p)
Settles(p) == InFlight(p) /\ call'[p].pc = "idle"

\* The bytes of a source before its trailing MAC_LENGTH bytes, and the trailer.
Body(s) == Take(s, Len(s) - MAC_LENGTH)
Trailer(s) == Last(s, MAC_LENGTH)

AllTampered == UNION { Tampered(e) : e \in ValidEnvelopes }
AllSources == Streams \cup AllTampered

\* The sources whose trailer is the HMAC of the bytes before it.
SoundSources ==
  { s \in AllSources : Len(s) >= MAC_LENGTH /\ Hmac(macKey, Body(s)) = Trailer(s) }
MacSound(s) == s \in SoundSources

\* The HMAC under macKey of the bytes of each source before its trailer.
BodyMac == [ s \in AllSources |-> Hmac(macKey, Body(s)) ]

VerifierStates ==
  <<"Idle", "Pass1Verifying", "Pass1Done", "Pass2Decrypting", "Pass2Verifying", "Complete">>

\* ph is a run of the verifier's state machine: a prefix of VerifierStates,
\* or a prefix that stops before Complete followed by Failed.
VerifierRun(ph) ==
  \/ ph = Take(VerifierStates, Len(ph))
  \/ /\ Len(ph) \in 2..Len(VerifierStates)
     /\ ph[Len(ph)] = "Failed"
     /\ Take(ph, Len(ph) - 1) = Take(VerifierStates, Len(ph) - 1)

\* C1: at most one exportBackup or importBackup is active (past its busy
\* check and not yet settled) in every reachable state.
C1_MutualExclusion == Cardinality({ p \in Procs : InFlight(p) }) <= 1

C1_Witness ==
  /\ \E p \in Procs : InFlight(p)
  /\ last.result = BUSY

\* C2: a call made while an export or import is in flight fails at once with
\* the busy error; it gets no frame, so it is not queued and never runs.
C2_BusyFailFast ==
  [][\A p \in Procs :
       (AnyInFlight /\ Calls(p)) =>
         /\ last'.result = BUSY
         /\ call' = call
         /\ call'[p] = NoCall]_vars

C2_Witness ==
  /\ last.result = BUSY
  /\ last.op = "import"
  /\ \E q \in Procs : call[q].pc = "export"

\* C3: whenever a call that acquired the flag settles, by success or by any
\* failure, isRunning is false afterwards.
C3_UnconditionalRelease ==
  [][\A p \in Procs :
       (Settles(p) \/ (NotRunning /\ call'[p].pc = "idle" /\ Calls(p))) =>
         /\ isRunning' = FALSE
         /\ NotRunning']_vars

C3_Witness ==
  /\ last.result = BAD_MAC_2
  /\ ~isRunning
  /\ \A p \in Procs : ~InFlight(p)

\* C4: a call rejected as busy leaves isRunning and every frame as they
\* were, and has obtained no key material, invoked no source factory and
\* written nothing to a sink.
C4_BusyNoSideEffects ==
  [][\A p \in Procs :
       (~NotRunning /\ Calls(p)) =>
         /\ isRunning' = isRunning
         /\ call' = call
         /\ last'.keyCalls = 0
         /\ last'.factoryCalls = 0
         /\ ~last'.wrote
         /\ last'.delivered = <<>>]_vars

C4_Witness ==
  /\ last.result = BUSY
  /\ last.op = "export"
  /\ isRunning
  /\ \E q \in Procs : call[q].pc = "pass2" /\ call[q].delivered # <<>>

\* C5: the second source, any deciphering and any delivery of a record come
\* only after pass 1 read its whole source and found its MAC sound; the
\* factory is invoked once when pass 1 fails and twice otherwise.
C5_PassesSequential ==
  /\ \A p \in Procs :
       LET c == call[p]
       IN  /\ c.pc = "pass1" =>
                c.factoryCalls = 1 /\ Len(c.streams) = 1 /\ c.delivered = <<>>
           /\ c.pc = "pass2" =>
                /\ c.factoryCalls = 2 /\ Len(c.streams) = 2
                /\ MacSound(c.streams[1])
                /\ c.theirMac = Trailer(c.streams[1])
           /\ c.pc \notin {"pass1", "pass2"} => c.factoryCalls = 0
  /\ (last.op = "import" /\ Len(last.phases) >= 2 /\ last.phases[2] = "Pass1Verifying") =>
       /\ last.factoryCalls = (IF Len(last.phases) >= 3 /\ last.phases[3] = "Pass1Done"
                               THEN 2 ELSE 1)
       /\ last.factoryCalls = 1 => last.delivered = <<>>

C5_Witness ==
  \E p \in Procs :
    /\ call[p].pc = "pass2"
    /\ call[p].factoryCalls = 2
    /\ call[p].delivered # <<>>

\* C6: an import of a valid envelope with one bit flipped in its IV, its
\* ciphertext or its MAC ends in pass 1 with 'Bad MAC' (unless its source
\* errors first), having delivered no record and without a second source.
C6_TamperSensitivity ==
  [][\A p \in Procs :
       (call[p].pc = "pass1" /\ CurrentStream(call[p]) \in AllTampered) =>
         \/ call'[p].pc = "pass1"
         \/ /\ call'[p] = NoCall
            /\ last'.result \in {BAD_MAC, STAGE_ERROR}
            /\ Pass1End(p) => last'.result = BAD_MAC
            /\ last'.delivered = <<>>
            /\ last'.factoryCalls = 1]_vars

C6_Witness ==
  \E p \in Procs :
    LET c == call[p]
    IN  /\ c.pc = "pass1"
        /\ CurrentStream(c) \in AllTampered
        /\ c.pos = Len(CurrentStream(c))
        /\ hmacDigest(c.hmac) # c.macBuf

\* C7: an import runs through Idle, Pass1Verifying, Pass1Done,
\* Pass2Decrypting, Pass2Verifying, Complete in that order or leaves that
\* order for Failed; it resolves only if pass 1 saw a MAC tag that its HMAC
\* equalled, the pass 2 pipeline ended without error and pass 2's HMAC
\* equalled the tag too; a failed import keeps no frame to run on.
C7_VerifierStateMachine ==
  [][\A p \in Procs :
       /\ VerifierRun(call'[p].phases)
       /\ last'.op = "import" => VerifierRun(last'.phases)
       /\ (call[p].op = "import" /\ Settles(p)) =>
            /\ call'[p] = NoCall
            /\ last'.phases[Len(last'.phases)] \in {"Complete", "Failed"}
            /\ last'.phases[Len(last'.phases)] = "Complete" <=> last'.result = OK
            /\ last'.result = OK =>
                 /\ last'.phases = VerifierStates
                 /\ Len(call[p].streams) = 2
                 /\ MacSound(call[p].streams[1])
                 /\ ~Pass2Error(Body(call[p].streams[2]), TRUE)
                 /\ BodyMac[call[p].streams[2]] = Trailer(call[p].streams[1])]_vars

C7_Witness ==
  /\ last.op = "import"
  /\ last.result = OK
  /\ last.phases = VerifierStates

\* C8: when the pass 2 pipeline has drained without error and the HMAC of
\* the pass 2 bytes differs from theirMac, the import fails with
\* 'Bad MAC, second pass'.
C8_SecondCheck ==
  [][\A p \in Procs :
       LET c == call[p]
       IN  ( /\ Pass2End(p)
             /\ ~Pass2Error(Body(CurrentStream(c)), TRUE)
             /\ BodyMac[CurrentStream(c)] # c.theirMac ) =>
             /\ last'.result = BAD_MAC_2
             /\ last'.phases = Take(VerifierStates, 5) \o <<"Failed">>]_vars

C8_Witness ==
  /\ last.result = BAD_MAC_2
  /\ last.factoryCalls = 2

\* C9 as stated: no record is delivered before both MAC comparisons have
\* succeeded, and a failed import has delivered nothing.
C9_NoOutputBeforeBothChecks ==
  /\ \A p \in Procs : call[p].delivered = <<>>
  /\ last.delivered # <<>> => last.result = OK

\* C9 as amended: no record is delivered before the pass 1 comparison has
\* succeeded; records are delivered during pass 2, before the second
\* comparison, and an import that fails in pass 1 has delivered nothing.
C9_NoOutputBeforeFirstCheck ==
  /\ \A p \in Procs :
       call[p].delivered # <<>> =>
         /\ call[p].pc = "pass2"
         /\ "Pass1Done" \in { call[p].phases[i] : i \in 1..Len(call[p].phases) }
         /\ BodyMac[call[p].streams[1]] = call[p].theirMac
  /\ last.delivered # <<>> =>
       /\ last.result \in {OK, BAD_MAC_2, STAGE_ERROR}
       /\ "Pass2Decrypting" \in { last.phases[i] : i \in 1..Len(last.phases) }

C9_Witness ==
  /\ last.result = BAD_MAC_2
  /\ last.delivered # <<>>

\* C10: when pass 1 ends and no MAC tag was observed, the import fails with
\* 'importBackup: Missing MAC', without Pass1Done and without a second source.
C10_MissingMac ==
  [][\A p \in Procs :
       (Pass1End(p) /\ MacFlush(call[p].macBuf) = Undefined) =>
         /\ last'.result = MISSING_MAC
         /\ last'.phases = <<"Idle", "Pass1Verifying", "Failed">>
         /\ last'.factoryCalls = 1
         /\ call'[p] = NoCall]_vars

C10_Witness ==
  /\ last.result = MISSING_MAC
  /\ last.factoryCalls = 1
  /\ \A p \in Procs : ~InFlight(p)

\* C11 as stated: when pass 1 has read the whole of a source shorter than
\* IV_LENGTH + MAC_LENGTH bytes, the import fails with 'Missing MAC' and with
\* no other error.
C11_TruncationMissingMac ==
  [][\A p \in Procs :
       (Len(call[p].streams) = 1
          /\ Len(call[p].streams[1]) < IV_LENGTH + MAC_LENGTH
          /\ Pass1End(p)) =>
         last'.result = MISSING_MAC]_vars

\* Every record stream exported with every IV, and the envelope it gives.
Exported ==
  { [records |-> r, iv |-> iv, envelope |-> ExportEnvelope(r, iv)] :
      r \in RecordStreams, iv \in IVs }

\* C12: when exportBackup resolves, the bytes written to the sink are the IV
\* (16 bytes), then the ciphertext of the padded compressed record stream
\* under aesKey and that IV, then 32 bytes that are the HMAC under macKey of
\* the IV followed by the ciphertext.
C12_EnvelopeLayout ==
  [][\A p \in Procs :
       (call[p].pc = "export" /\ call'[p].pc = "idle" /\ last'.result = OK) =>
         LET sink == call[p].sink
             iv == call[p].iv
             compressed == Gzip(Frame(call[p].records))
             ciphertext == Encrypt(aesKey, iv, appendPadding(compressed))
         IN  /\ Len(iv) = IV_LENGTH
             /\ Len(sink) = IV_LENGTH + Len(ciphertext) + MAC_LENGTH
             /\ SubSeq(sink, 1, IV_LENGTH) = iv
             /\ SubSeq(sink, IV_LENGTH + 1, Len(sink) - MAC_LENGTH) = ciphertext
             /\ SubSeq(sink, Len(sink) - MAC_LENGTH + 1, Len(sink)) =
                  Hmac(macKey, iv \o ciphertext)
             /\ Len(ciphertext) % BLOCK_LENGTH = 0
             /\ Len(ciphertext) > Len(compressed)]_vars

C12_Witness ==
  /\ last.op = "export"
  /\ last.result = OK
  /\ last.wrote
  /\ \A p \in Procs : ~InFlight(p)

\* Record streams of one or two records over a wider choice of records, and
\* those of them that the decoding chain of pass 2 does not give back from
\* their envelope, or whose envelope carries an unsound MAC.
RoundTripRecords ==
  { <<0>>, <<255>>, <<1, 2>>, <<3, 4, 5, 6, 7>>, [i \in 1..14 |-> 16 * i] }
RoundTripStreams ==
  { <<r>> : r \in RoundTripRecords } \cup (RoundTripRecords \X RoundTripRecords)
RoundTripFailures ==
  { x \in RoundTripStreams \X IVs :
      LET e == ExportEnvelope(x[1], x[2])
      IN  \/ Len(e) < IV_LENGTH + MAC_LENGTH
          \/ Hmac(macKey, Body(e)) # Trailer(e)
          \/ Pass2Error(Body(e), TRUE)
          \/ Pass2Records(Body(e), TRUE) # x[1] }

\* C13: an import whose factory replays, on both calls, the envelope that an
\* export of the record stream R produced passes pass 1, has no stage
\* failure in pass 2 and resolves, having delivered exactly R in order; and
\* the decoding chain gives back every record stream of RoundTripStreams.
C13_RoundTrip ==
  /\ RoundTripFailures = {}
  /\ [][\A p \in Procs : \A x \in Exported :
          /\ (call[p].pc = "pass1" /\ call[p].streams = <<x.envelope>> /\ Pass1End(p)) =>
               call'[p].pc = "pass2"
          /\ (call[p].pc = "pass2" /\ call[p].streams = <<x.envelope, x.envelope>>) =>
               /\ \A n \in ChunkSizes : Pass2Chunk(p, n) => call'[p].pc = "pass2"
               /\ Pass2End(p) =>
                    /\ last'.result = OK
                    /\ last'.delivered = x.records
                    /\ last'.phases = VerifierStates]_vars

C13_Witness ==
  /\ last.op = "import"
  /\ last.result = OK
  /\ last.delivered \in RecordStreams
  /\ Len(last.delivered) = 2

\* A stage of the pipeline of p's import fails in this step: its source or
\* sink errors, or a decoding stage of pass 2 rejects what it was given.
StageFails(p) ==
  LET c == call[p]
  IN  \/ ImportStageError(p)
      \/ /\ c.pc = "pass2"
         /\ \/ Pass2End(p) /\ Pass2Error(Forwarded(c), TRUE)
            \/ \E n \in ChunkSizes :
                 /\ Pass2Chunk(p, n)
                 /\ Pass2Error(Forwarded(MacTransform(c, NextChunk(c, n))), FALSE)

\* C14: when a stage of either pass fails, importBackup rejects with the
\* stage's error, the verifier goes from the state it was in to Failed
\* (never to Pass2Verifying or Complete), no further source is created, and
\* the frame is gone, so no later step of the import can run.
C14_ImportFailurePolicy ==
  [][\A p \in Procs :
       (call[p].pc \in {"pass1", "pass2"} /\ StageFails(p)) =>
         /\ last'.result = STAGE_ERROR
         /\ last'.phases = Append(call[p].phases, "Failed")
         /\ last'.factoryCalls = call[p].factoryCalls
         /\ call'[p] = NoCall]_vars

\* A pass 2 stage failed on bytes whose HMAC also differs from theirMac.
C14_Witness ==
  /\ last.result = STAGE_ERROR
  /\ last.phases = Take(VerifierStates, 4) \o <<"Failed">>
  /\ last.delivered # <<>>
  /\ \A p \in Procs : ~InFlight(p)

\* C15: exportBackup resolves only in a step before which the sink has
\* received the whole envelope, trailing MAC included; a step in which a
\* stage of the export pipeline errors rejects the call.
C15_ExportSettles ==
  [][\A p \in Procs :
       call[p].pc = "export" =>
         /\ (call'[p].pc = "idle" /\ last'.result = OK) =>
              /\ call[p].sink = ExportEnvelope(call[p].records, call[p].iv)
              /\ Last(call[p].sink, MAC_LENGTH) = Hmac(macKey, Body(call[p].sink))
         /\ ExportStageError(p) =>
              /\ last'.op = "export"
              /\ last'.result = STAGE_ERROR
              /\ call'[p] = NoCall
         /\ call'[p].pc = "idle" => last'.result \in {OK, STAGE_ERROR}]_vars

\* An export rejected after part of the envelope reached the sink.
C15_Witness ==
  /\ last.op = "export"
  /\ last.result = STAGE_ERROR
  /\ last.wrote

\* C16: an import whose first source is a proper prefix of an exported
\* envelope ends in pass 1, with 'Missing MAC' or 'Bad MAC' once the prefix
\* has been read to its end, without a second source and with no record
\* delivered.
C16_PartialEnvelopeRejected ==
  [][\A p \in Procs :
       (call[p].pc = "pass1" /\ call[p].streams[1] \in PartialEnvelopes) =>
         \/ call'[p].pc = "pass1"
         \/ /\ call'[p] = NoCall
            /\ last'.result \in {MISSING_MAC, BAD_MAC, STAGE_ERROR}
            /\ Pass1End(p) =>
                 last'.result = (IF Len(call[p].streams[1]) < MAC_LENGTH
                                 THEN MISSING_MAC ELSE BAD_MAC)
            /\ last'.phases = <<"Idle", "Pass1Verifying", "Failed">>
            /\ last'.factoryCalls = 1
            /\ last'.delivered = <<>>]_vars

\* Pass 1 has read to its end an envelope that lacks only its last byte.
C16_Witness ==
  \E p \in Procs : \E e \in ValidEnvelopes :
    /\ call[p].pc = "pass1"
    /\ call[p].streams = <<Take(e, Len(e) - 1)>>
    /\ call[p].pos = Len(e) - 1

\* The ciphertext of an envelope: what lies between its IV and its MAC.
Ciphertext(s) == SubSeq(s, IV_LENGTH + 1, Len(s) - MAC_LENGTH)

\* C17: of two exports of the same record stream that resolved, each wrote
\* its own IV, the two IVs and the two ciphertexts differ, and both envelopes
\* decipher, without error, to the same plaintext, which decodes to the
\* records exported; a caller with no call in flight holds no IV.
C17_FreshIv ==
  /\ \A p \in Procs : ~InFlight(p) => call[p].iv = <<>>
  /\ \A i, j \in 1..Len(written) :
       (i < j /\ written[i].records = written[j].records) =>
         LET a == written[i].sink
             b == written[j].sink
         IN  /\ Take(a, IV_LENGTH) # Take(b, IV_LENGTH)
             /\ Ciphertext(a) # Ciphertext(b)
             /\ ~Pass2Error(Body(a), TRUE)
             /\ ~Pass2Error(Body(b), TRUE)
             /\ DecipherOut(Body(a), TRUE) = DecipherOut(Body(b), TRUE)
             /\ Pass2Records(Body(a), TRUE) = written[i].records
             /\ Pass2Records(Body(b), TRUE) = written[j].records

C17_Witness ==
  /\ Len(written) = 2
  /\ written[1].records = written[2].records
  /\ written[1].sink # written[2].sink

\* C19: a rejected api.refresh() is caught and logged and no promise of
\* runPeriodicRefresh rejects; no step of start(), of the timer or of a
\* refresh changes isRunning, a frame or an outcome; isRunning is set exactly
\* while a call is in flight, so a busy rejection comes from a call in flight
\* alone; and beside any refresh an export rejects only when a stage of its
\* own pipeline errors, and an import of a replayed sound envelope only when
\* its own source or sink errors.
C19_RefreshIsolation ==
  [][/\ refresh'.unhandled = 0
     /\ refreshVars' # refreshVars =>
          /\ isRunning' = isRunning /\ call' = call /\ last' = last
          /\ refresh'.pending < refresh.pending =>
               (refresh'.log \in {"refreshed", "failed"} /\ (RefreshRejects => refresh'.log = "failed"))
     /\ isRunning' <=> (\E p \in Procs : call'[p].pc # "idle")
     /\ (last' # last /\ last'.result = BUSY) => AnyInFlight
     /\ \A p \in Procs :
          (InFlight(p) /\ call'[p].pc = "idle") =>
            /\ call[p].op = "export" =>
                 (last'.result = OK \/ (last'.result = STAGE_ERROR /\ ExportStageError(p)))
            /\ (call[p].op = "import" /\ call[p].streams[1] = RefreshEnvelope) =>
                 \/ last'.result = OK /\ last'.delivered = << <<7>> >>
                 \/ last'.result = STAGE_ERROR /\ ImportStageError(p)]_vars

\* A refresh has failed while an import is in pass 2.
C19_Witness ==
  /\ refresh.log = "failed"
  /\ refresh.unhandled = 0
  /\ isRunning
  /\ \E p \in Procs : call[p].pc = "pass2" /\ call[p].pos > 0

\* C18: every call in flight eventually settles and the running flag,
\* once set, is eventually cleared; the flag is set only while a call is in
\* flight, so it never outlasts the pipelines.
C18_Settles ==
  /\ [](isRunning <=> AnyInFlight)
  /\ \A p \in Procs : InFlight(p) ~> ~InFlight(p)
  /\ isRunning ~> ~isRunning

C18_Witness ==
  /\ ~isRunning
  /\ \A p \in Procs : ~InFlight(p)
  /\ last.op = "export"
  /\ last.result = OK
  /\ last.keyCalls = 1

\* The errors a caller may have to tell apart.
FailureMessages == <<BUSY, MISSING_MAC, BAD_MAC, BAD_MAC_2>>

\* C20: the busy rejection, the missing MAC, the MAC mismatch of pass 1 and
\* the MAC mismatch of pass 2 reject with four different errors, and each
\* error comes from its own place only: the busy error from a call made
\* while another runs, 'Missing MAC' and 'Bad MAC' from the end of pass 1,
\* 'Bad MAC, second pass' from the end of pass 2.
C20_DistinctFailures ==
  /\ \A i, j \in 1..Len(FailureMessages) :
       i # j => FailureMessages[i] # FailureMessages[j]
  /\ [][/\ (last' # last /\ last'.result = BUSY) =>
             /\ AnyInFlight
             /\ call' = call
             /\ \E p \in Procs : Calls(p)
        /\ \A p \in Procs :
             /\ (AnyInFlight /\ Calls(p)) => last'.result = BUSY
             /\ Settles(p) =>
                  LET c == call[p]
                      mac == MacFlush(c.macBuf)
                  IN  /\ last'.result # BUSY
                      /\ last'.result = MISSING_MAC <=>
                           (c.pc = "pass1" /\ Pass1End(p) /\ mac = Undefined)
                      /\ last'.result = BAD_MAC <=>
                           ( /\ c.pc = "pass1" /\ Pass1End(p) /\ mac # Undefined
                             /\ hmacDigest(c.hmac) # mac )
                      /\ last'.result = BAD_MAC_2 <=>
                           ( /\ c.pc = "pass2" /\ Pass2End(p)
                             /\ ~Pass2Error(Forwarded(c), TRUE)
                             /\ hmacDigest(c.hmac) # c.theirMac )
                      /\ last'.result \in {MISSING_MAC, BAD_MAC} =>
                           last'.phases = <<"Idle", "Pass1Verifying", "Failed">>
                      /\ last'.result = BAD_MAC_2 =>
                           "Pass2Verifying" \in { last'.phases[i] : i \in 1..Len(last'.phases) }]_vars

C20_Witness ==
  /\ last.op = "import"
  /\ last.result = BAD_MAC
  /\ last.phases = <<"Idle", "Pass1Verifying", "Failed">>
  /\ AnyInFlight

\* The second source of p's import differs from the first before the trailer.
SecondBodyDiffers(p) ==
  /\ call[p].pc = "pass2"
  /\ Body(call[p].streams[2]) # Body(call[p].streams[1])

\* C22 as stated: when the second source differs from the first in its IV or
\* ciphertext bytes and pass 2 has read it to its end, the import fails at
\* the second check.
C22_FailsAtSecondCheck ==
  [][\A p \in Procs :
       (SecondBodyDiffers(p) /\ Pass2End(p)) => last'.result = BAD_MAC_2]_vars

\* C22 as amended: the second check compares the HMAC of pass 2 with the tag
\* captured in pass 1 and never with the trailer of the pass 2 source.  An
\* import whose second source differs before the trailer never resolves: it
\* fails at the second check when the pass 2 pipeline ends without error,
\* and with the stage's error otherwise.  A second source that differs in
\* its trailer alone is accepted.
C22_SecondCheckUsesPass1Tag ==
  [][\A p \in Procs :
       (call[p].pc = "pass2" /\ Settles(p)) =>
         LET c == call[p]
             s1 == c.streams[1]
             s2 == c.streams[2]
         IN  /\ c.theirMac = Trailer(s1)
             /\ Body(s2) # Body(s1) =>
                  /\ last'.result \in {BAD_MAC_2, STAGE_ERROR}
                  /\ (Pass2End(p) /\ ~Pass2Error(Body(s2), TRUE)) =>
                       last'.result = BAD_MAC_2
                  /\ last'.result = STAGE_ERROR =>
                       (ImportStageError(p) \/ Pass2Error(Forwarded(c), TRUE)
                          \/ \E n \in ChunkSizes : Pass2Chunk(p, n))
             /\ (Body(s2) = Body(s1) /\ Pass2End(p) /\ ~Pass2Error(Body(s2), TRUE)) =>
                  last'.result = OK]_vars

C22_Witness ==
  \E p \in Procs :
    LET c == call[p]
    IN  /\ SecondBodyDiffers(p)
        /\ c.streams[2] \in ValidEnvelopes
        /\ c.pos = Len(c.streams[2])
        /\ constantTimeEqual(hmacDigest(c.hmac), c.macBuf)
        /\ ~constantTimeEqual(hmacDigest(c.hmac), c.theirMac)

\* C23: in pass 2 the accumulator holds the HMAC under macKey of exactly the
\* bytes of the pass 2 source that have left the MAC stage, starting from a
\* fresh accumulator; once the source is read to its end, the digest the
\* second check compares is the HMAC of the pass 2 source before its
\* trailer, whatever pass 1 hashed.
C23_FreshAccumulator ==
  \A p \in Procs :
    LET c == call[p]
    IN  c.pc = "pass2" =>
          /\ c.hmac = hmacUpdate(createHmac(macKey), Forwarded(c))
          /\ c.pos = Len(c.streams[2]) =>
               /\ Forwarded(c) = Body(c.streams[2])
               /\ c.macBuf = Trailer(c.streams[2])
               /\ hmacDigest(c.hmac) = BodyMac[c.streams[2]]

C23_Witness ==
  \E p \in Procs :
    LET c == call[p]
    IN  /\ c.pc = "pass2"
        /\ c.pos = Len(c.streams[2])
        /\ Body(c.streams[2]) # Body(c.streams[1])
        /\ hmacDigest(c.hmac) = BodyMac[c.streams[2]]
        /\ hmacDigest(c.hmac) # BodyMac[c.streams[1]]

\* C24: while a stage of an export or import pipeline is active, isRunning
\* is true.  The flag is set in the step that starts the call, before the
\* pipeline has read or written anything, and cleared only in the step in
\* which a call settles.
C24_FlagCoversPipelines ==
  /\ [](\A p \in Procs : InFlight(p) => isRunning)
  /\ [][/\ (~isRunning /\ isRunning') =>
             \E p \in Procs :
               /\ ~InFlight(p)
               /\ call'[p].pc \in {"export", "pass1"}
               /\ call'[p].pos = 0
               /\ call'[p].sink = <<>>
               /\ call'[p].delivered = <<>>
        /\ (isRunning /\ ~isRunning') =>
             \E p \in Procs : Settles(p) /\ call'[p] = NoCall
        /\ \A p \in Procs :
             (InFlight(p) /\ call'[p].pc # "idle") => isRunning']_vars

C24_Witness ==
  /\ isRunning
  /\ \E p \in Procs :
       /\ call[p].pc = "export"
       /\ call[p].sink # <<>>
       /\ Len(call[p].sink) < Len(EnvelopeOf(call[p].records, call[p].iv))

\* C25: when getKeyMaterial throws in a call that has passed the busy check,
\* the call rejects with that error and isRunning is false afterwards; no
\* frame is left, an export has written nothing to its sink, an import has
\* not invoked createBackupStream and has delivered nothing.
C25_KeyMaterialFailure ==
  [][\A p \in Procs :
       /\ (NotRunning /\ call'[p].pc = "idle" /\ Calls(p)) =>
            /\ last'.result = KEY_ERROR
            /\ last'.keyCalls = 1
            /\ ~isRunning'
            /\ call' = call
            /\ \A q \in Procs : call'[q] = NoCall
            /\ ~last'.wrote
            /\ last'.factoryCalls = 0
            /\ last'.delivered = <<>>
            /\ last'.op = "import" => last'.phases = <<"Idle", "Failed">>
       /\ (last' # last /\ last'.result = KEY_ERROR) =>
            (NotRunning /\ \E q \in Procs : Calls(q))]_vars

C25_Witness ==
  /\ last.result = KEY_ERROR
  /\ last.op = "export"
  /\ last.keyCalls = 1
  /\ ~last.wrote
  /\ ~isRunning

\* C26: however often start() is called, one timer is installed, one
\* immediate refresh is triggered and credentials.start() is called once,
\* all by the first call; a later call logs its warning and changes nothing
\* else.  No call of start() changes isRunning, a frame or an outcome.
C26_StartIdempotent ==
  /\ [](LET once == IF isStarted THEN 1 ELSE 0
        IN  /\ refresh.timers = once
            /\ refresh.immediate = once
            /\ refresh.credentials = once)
  /\ [][/\ isStarted => isStarted'
        /\ Start =>
             /\ isStarted'
             /\ isRunning' = isRunning /\ call' = call /\ last' = last
             /\ isStarted => refresh' = [refresh EXCEPT !.log = "already started"]
             /\ ~isStarted =>
                  /\ refresh'.triggered = refresh.triggered + 1
                  /\ refresh'.pending = refresh.pending + 1]_vars

C26_Witness ==
  /\ isStarted
  /\ refresh.log = "already started"
  /\ refresh.timers = 1 /\ refresh.immediate = 1 /\ refresh.credentials = 1
  /\ refresh.triggered = MaxRefreshes
  /\ isRunning

\* The lookup that holds the calls of a call mode.
LookupOf(state, callMode) == IF callMode = Adhoc THEN state.adhocCalls ELSE state.callsByConversation

OtherLookupOf(state, callMode) == IF callMode = Adhoc THEN state.callsByConversation ELSE state.adhocCalls

\* C27: when the result of a peek is dispatched and the group call of its
\* conversation is connecting, connected or reconnecting, the reducer
\* returns the state it was given; when the call is NotConnected or absent,
\* the new state differs from the old one only in that call, which is the
\* existing call (or a NotConnected, NotJoined call without ring) with the
\* peeked peekInfo.
C27_LatePeekIgnored ==
  [][\A th \in Waiting, peekInfo \in PeekResults :
       PeekDispatches(th, peekInfo) =>
         LET id == th.conversationId
             before == getGroupCall(id, calling, th.callMode)
             lookup == LookupOf(calling, th.callMode)
             lookupAfter == LookupOf(calling', th.callMode)
         IN  IF before # None /\ before[1].connectionState # NotConnected
             THEN calling' = calling
             ELSE /\ calling'.activeCallState = calling.activeCallState
                  /\ calling'.callLinks = calling.callLinks
                  /\ OtherLookupOf(calling', th.callMode) = OtherLookupOf(calling, th.callMode)
                  /\ DOMAIN lookupAfter = DOMAIN lookup \cup {id}
                  /\ \A k \in DOMAIN lookup \ {id} : lookupAfter[k] = lookup[k]
                  /\ lookupAfter[id].peekInfo = peekInfo
                  /\ IF before # None
                     THEN lookupAfter[id] = [before[1] EXCEPT !.peekInfo = peekInfo]
                     ELSE /\ lookupAfter[id].callMode = th.callMode
                          /\ lookupAfter[id].connectionState = NotConnected
                          /\ lookupAfter[id].joinState = NotJoined
                          /\ lookupAfter[id].ringId = Absent
  ]_vars

\* A peek is still waiting for its result while the call of its
\* conversation, which took the result of an earlier peek when it was not
\* connected, has connected.
C27_Witness ==
  \E th \in Waiting :
    /\ th.kind = "doGroupCallPeek"
    /\ LET c == getGroupCall(th.conversationId, calling, th.callMode)
       IN  /\ c # None
           /\ c[1].connectionState \in {Connecting, Connected, Reconnecting}
           /\ c[1].peekInfo \in PeekResults

\* C28 as stated: under every interleaving of startCallingLobby and
\* startCallLinkLobby thunks, START_CALLING_LOBBY or START_CALL_LINK_LOBBY
\* is applied only to a state without activeCallState, so that no active
\* call is replaced by a lobby.
C28_LobbyNeverReplacesActiveCall ==
  [][\A th \in Waiting : LobbyDispatches(th) => calling.activeCallState = None]_vars

\* C29: in every calling state the reducer can produce from getEmptyState(),
\* an activeCallState names a call that exists: its conversationId is a key
\* of adhocCalls when its callMode is Adhoc and of callsByConversation
\* otherwise, so getActiveCall returns a call.
C29_ActiveCallExists ==
  calling.activeCallState # None =>
    LET a == calling.activeCallState[1]
    IN  /\ IF a.callMode = Adhoc
           THEN a.conversationId \in DOMAIN calling.adhocCalls
           ELSE a.conversationId \in DOMAIN calling.callsByConversation
        /\ getActiveCall(calling) # None

\* The active call is a call-link call whose room id is no key of
\* callsByConversation, while a call of another conversation has been
\* removed or never existed.
C29_Witness ==
  /\ calling.activeCallState # None
  /\ calling.activeCallState[1].callMode = Adhoc
  /\ calling.activeCallState[1].conversationId \notin DOMAIN calling.callsByConversation
  /\ getActiveCall(calling) # None
  /\ DOMAIN calling.callsByConversation = {"a"}

\* The activeCallState refers to this conversation.
ActiveFor(state, conversationId) ==
  state.activeCallState # None /\ state.activeCallState[1].conversationId = conversationId

\* C30: CALL_STATE_CHANGE_FULFILLED with callState Ended and a reason other
\* than RemoteHangupNeedPermission removes the call of the conversation, and
\* the activeCallState if it refers to that conversation, and nothing else;
\* with reason RemoteHangupNeedPermission it removes no call and keeps the
\* activeCallState, and a direct call is stored as Ended with that reason;
\* CLOSE_NEED_PERMISSION_SCREEN then removes the active direct call and the
\* activeCallState.
C30_EndedCallRemoval ==
  [][/\ \A action \in CallStateChangeActions :
          (action.callState = Ended /\ Dispatch(action)) =>
            LET id == action.conversationId
            IN  IF action.callEndedReason # RemoteHangupNeedPermission
                THEN /\ id \notin DOMAIN calling'.callsByConversation
                     /\ id \notin DOMAIN calling'.adhocCalls
                     /\ \A k \in DOMAIN calling.callsByConversation \ {id} :
                          /\ k \in DOMAIN calling'.callsByConversation
                          /\ calling'.callsByConversation[k] = calling.callsByConversation[k]
                     /\ calling'.activeCallState =
                          IF ActiveFor(calling, id) THEN None ELSE calling.activeCallState
                ELSE /\ DOMAIN calling'.callsByConversation = DOMAIN calling.callsByConversation
                     /\ calling'.adhocCalls = calling.adhocCalls
                     /\ (calling.activeCallState # None) = (calling'.activeCallState # None)
                     /\ calling.activeCallState # None =>
                          /\ calling'.activeCallState[1].conversationId
                               = calling.activeCallState[1].conversationId
                          /\ calling'.activeCallState[1].callMode = calling.activeCallState[1].callMode
                     /\ (id \in DOMAIN calling.callsByConversation
                         /\ calling.callsByConversation[id].callMode = Direct) =>
                          /\ calling'.callsByConversation[id].callState = Ended
                          /\ calling'.callsByConversation[id].callEndedReason
                               = RemoteHangupNeedPermission
     /\ LET activeCall == getActiveCall(calling)
        IN  ( /\ Dispatch([type |-> CLOSE_NEED_PERMISSION_SCREEN])
              /\ activeCall # None
              /\ activeCall[1].callMode = Direct ) =>
              /\ activeCall[1].conversationId \notin DOMAIN calling'.callsByConversation
              /\ calling'.activeCallState = None
  ]_vars

\* The active call is a direct call that ended with
\* RemoteHangupNeedPermission and is still stored.
C30_Witness ==
  \E id \in DOMAIN calling.callsByConversation :
    /\ calling.callsByConversation[id].callState = Ended
    /\ calling.callsByConversation[id].callEndedReason = RemoteHangupNeedPermission
    /\ ActiveFor(calling, id)
    /\ calling.activeCallState[1].callMode = Direct

\* The group calls of a calling state, from both lookups.
GroupCallsOf(state) ==
  { state.callsByConversation[k] :
      k \in { id \in DOMAIN state.callsByConversation :
                isGroupOrAdhocCallMode(state.callsByConversation[id].callMode) } }
    \cup { state.adhocCalls[k] : k \in DOMAIN state.adhocCalls }

\* C31: in every reachable calling state each group call has ringId and
\* ringerAci both set or both unset.
C31_RingStatePaired ==
  \A c \in GroupCallsOf(calling) : (c.ringId = Absent) <=> (c.ringerAci = Absent)

\* A ringing call went through a lobby or a state change that copied its
\* ring state, next to a call that does not ring.
C31_Witness ==
  /\ \E c \in GroupCallsOf(calling) :
       c.ringId \in RingIds /\ c.ringerAci \in RingerAcis /\ c.connectionState = Connected
  /\ \E c \in GroupCallsOf(calling) : c.ringId = Absent /\ c.ringerAci = Absent

\* The state with the entry of callsByConversation for a conversation replaced.
WithCall(state, conversationId, c) ==
  [state EXCEPT !.callsByConversation = Spread(@, conversationId, c)]

\* C32: CANCEL_INCOMING_GROUP_CALL_RING for the ring id the conversation's
\* group call carries clears ringId and ringerAci of that call and changes
\* nothing else; for any other ring id, or without a group call, the state
\* stays as it was.
C32_CancelOnlyCurrentRing ==
  [][\A action \in CancelRingActions :
       Dispatch(action) =>
         LET g == getGroupCall(action.conversationId, calling, Group)
         IN  IF g # None /\ g[1].ringId = action.ringId
             THEN calling' = WithCall(calling, action.conversationId,
                                      [g[1] EXCEPT !.ringId = Absent, !.ringerAci = Absent])
             ELSE calling' = calling
  ]_vars

\* Two group calls ring with different ring ids, so that every cancel is
\* the current one for at most one of them.
C32_Witness ==
  /\ DOMAIN calling.callsByConversation = Conversations
  /\ calling.callsByConversation["a"].ringId = "1"
  /\ calling.callsByConversation["b"].ringId = "2"

\* C33: INCOMING_GROUP_CALL leaves the state as it was when the
\* conversation's group call has a ringerAci or a joinState other than
\* NotJoined; otherwise it writes ringId and ringerAci on the existing call,
\* keeping its other fields, or stores a NotConnected, NotJoined call with
\* empty peek info and the ring, and changes nothing else.
C33_IncomingRing ==
  [][\A action \in IncomingGroupCallActions :
       Dispatch(action) =>
         LET id == action.conversationId
             g == getGroupCall(id, calling, Group)
         IN  CASE g # None /\ (g[1].ringerAci # Absent \/ g[1].joinState # NotJoined) ->
                    calling' = calling
               [] g # None /\ g[1].ringerAci = Absent /\ g[1].joinState = NotJoined ->
                    calling' = WithCall(calling, id,
                                        [g[1] EXCEPT !.ringId = action.ringId,
                                                     !.ringerAci = action.ringerAci])
               [] OTHER ->
                    /\ calling' = WithCall(calling, id, calling'.callsByConversation[id])
                    /\ LET c == calling'.callsByConversation[id]
                       IN  /\ c.callMode = Group
                           /\ c.conversationId = id
                           /\ c.connectionState = NotConnected
                           /\ c.joinState = NotJoined
                           /\ c.peekInfo = PeekInfo(0, Absent)
                           /\ c.remoteParticipants = 0
                           /\ c.ringId = action.ringId
                           /\ c.ringerAci = action.ringerAci
  ]_vars

\* A call that had been peeked rings and still has its peek info, and
\* another call that is joined does not ring.
C33_Witness ==
  /\ \E c \in GroupCallsOf(calling) :
       c.ringId \in RingIds /\ c.peekInfo.eraId = "era1" /\ c.joinState = NotJoined
  /\ \E c \in GroupCallsOf(calling) : c.joinState = Joined /\ c.ringId = Absent

\* C34: after GROUP_CALL_STATE_CHANGE with a joinState other than NotJoined
\* the call has neither ringId nor ringerAci; with joinState NotJoined it has
\* the ring state the conversation's group call had before, or none when
\* there was no group call.
C34_JoinClearsRing ==
  [][\A action \in RingStateChangeActions :
       Dispatch(action) =>
         LET id == action.conversationId
             g == getGroupCall(id, calling, action.callMode)
             c == LookupOf(calling', action.callMode)[id]
         IN  /\ id \in DOMAIN LookupOf(calling', action.callMode)
             /\ IF action.joinState # NotJoined
                THEN c.ringId = Absent /\ c.ringerAci = Absent
                ELSE /\ c.ringId = IF g = None THEN Absent ELSE g[1].ringId
                     /\ c.ringerAci = IF g = None THEN Absent ELSE g[1].ringerAci
  ]_vars

\* A ringing call that is connected but not joined kept its ring, and a
\* call that joined has none.
C34_Witness ==
  /\ \E c \in GroupCallsOf(calling) :
       c.connectionState = Connected /\ c.joinState = NotJoined /\ c.ringId = "2"
  /\ \E c \in GroupCallsOf(calling) : c.joinState = Joining /\ c.ringId = Absent


\* The reactions shown on the active call.
ActiveReactions(state) ==
  IF state.activeCallState = None THEN <<>> ELSE ReactionsOrEmpty(state.activeCallState[1])

\* The call of conversation id is the active one.
IsActive(state, id) ==
  /\ state.activeCallState # None
  /\ state.activeCallState[1].conversationId = id

\* new holds the newest MAX_CALLING_REACTIONS entries of all, in the order of all.
NewestOf(new, all) ==
  /\ Len(new) = IF Len(all) <= MAX_CALLING_REACTIONS THEN Len(all) ELSE MAX_CALLING_REACTIONS
  /\ \A i \in 1..Len(new) : new[i] = all[Len(all) - Len(new) + i]

\* C35: the active call never shows more than MAX_CALLING_REACTIONS reactions,
\* and a batch received or a reaction sent on the active call leaves the newest
\* MAX_CALLING_REACTIONS of the former reactions followed by the new ones, in
\* the order they arrived.
C35_ReactionsBounded ==
  /\ [](Len(ActiveReactions(calling)) <= MAX_CALLING_REACTIONS)
  /\ [][ /\ \A id \in ReactionConversations, reactions \in ReactionBatches :
              ReceiveGroupCallReactions(id, reactions) /\ IsActive(calling, id) =>
                NewestOf(ActiveReactions(calling'),
                         ActiveReactions(calling) \o
                           [ i \in 1..Len(reactions) |->
                               [ timestamp |-> now, demuxId |-> reactions[i].demuxId,
                                 value |-> reactions[i].value ] ])
         /\ \A id \in ReactionConversations :
              SendGroupCallReaction(id, "v") /\ IsActive(calling, id) =>
                LET g == getGroupCall(id, calling, Group) IN
                IF g # None /\ ~Falsy(g[1].localDemuxId)
                THEN NewestOf(ActiveReactions(calling'),
                              Append(ActiveReactions(calling),
                                     [ timestamp |-> now, demuxId |-> g[1].localDemuxId,
                                       value |-> "v" ]))
                ELSE calling' = calling ]_vars

\* The list is full and its first reaction is the second of a batch: the first
\* of that batch was dropped.
C35_Witness ==
  /\ Len(ActiveReactions(calling)) = MAX_CALLING_REACTIONS
  /\ ActiveReactions(calling)[1].demuxId = RemoteDemuxIds[1]

\* The active call of conversation id shows a reaction stamped ts.
HasReaction(id, ts) ==
  /\ IsActive(calling, id)
  /\ \E i \in 1..Len(ActiveReactions(calling)) : ActiveReactions(calling)[i].timestamp = ts

\* C36: when GROUP_CALL_REACTIONS_EXPIRED of a batch is processed while the call
\* of its conversation is the active one, no reaction with the batch's
\* timestamp is left; and every reaction the active call shows is removed at
\* some time.
C36_ReactionsExpire ==
  /\ [][ \A th \in ReactionThunks :
           ReactionsExpire(th) /\ IsActive(calling, th.conversationId) =>
             /\ IsActive(calling', th.conversationId)
             /\ \A i \in 1..Len(ActiveReactions(calling')) :
                  ActiveReactions(calling')[i].timestamp # th.timestamp ]_vars
  /\ \A id \in ReactionConversations, ts \in 0..MaxTime :
       HasReaction(id, ts) ~> ~HasReaction(id, ts)

\* An expiry has emptied the list of a call that is still active.
C36_Witness ==
  /\ calling.activeCallState # None
  /\ calling.activeCallState[1].reactions = Some(<<>>)
  /\ now >= CALLING_REACTIONS_LIFETIME

====
